---- MODULE Spec2Model ----
(***************************************************************************)
(* Model of the nifty_bot strategy engine (src/core/strategy.py), its      *)
(* crash-recovery reconciler (src/core/reconciliation.py), the trading     *)
(* context with its operator commands (src/core/context.py), the trade     *)
(* ledger (src/infra/db.py) and the two execution brokers                  *)
(* (src/infra/paper_broker.py, src/infra/upstox_client.py).                *)
(*                                                                         *)
(* Prices are whole points and times are minutes of the day.  A data feed  *)
(* (access token) is taken to be configured, so PaperBroker.get_ltp        *)
(* proxies the real feed.  In Spec and SpecQuietDay one run_tick is one    *)
(* atomic step and commands and restarts happen between ticks; SpecThreads *)
(* splits the tick where the main thread waits and lets the command thread *)
(* run there.  A behaviour covers one calendar day.                        *)
(* The records a broker returns for positions and orders answer both key   *)
(* and attribute access, as the reconciler and UpstoxClient use them.      *)
(* PaperBroker never fails a call; the live broker may refuse or fail      *)
(* place_order, modify_order, cancel_order and the kill sweep.             *)
(***************************************************************************)
EXTENDS Integers, Sequences, FiniteSets, TLC

(***************************************************************************)
(* Program constants                                                       *)
(***************************************************************************)
TARGET_PREMIUM == 180
TARGET_POINTS == 40
SL_POINTS == 20
LOT_SIZE == 50
WEEKLY_MAX_LOSS == 10000
BUFFER_POINTS == 5
FAILSAFE_MARGIN == 2
RISK_FREE_POINTS == 20
TRAILING_TRIGGER == 20
TRAILING_GAP == 15
DAYS_PER_WEEK == 7

OBSERVATION_START_TIME == 9 * 60 + 25
ENTRY_START_TIME == 9 * 60 + 30
ENTRY_END_TIME == 9 * 60 + 35
TRAIL_ACTIVATION_TIME == 9 * 60 + 45
SQUARE_OFF_TIME == 10 * 60

(***************************************************************************)
(* Bounds of the model                                                     *)
(***************************************************************************)
\* operator commands and process restarts in one behaviour
MaxOps == 1
\* calls the live broker refuses or fails in one behaviour
MaxFaults == 1
\* calendar days a process that runs over midnight lives through
MaxDays == 2
\* points the price may move between a tick's first read and its exit read
MaxSlip == 1
\* the first day of a behaviour is a Tuesday (day 1 is a Monday)
FirstDay == DAYS_PER_WEEK + 2
Modes == {"paper", "live"}

\* wall-clock times a behaviour passes through, in order
ClockTimes == << OBSERVATION_START_TIME - 5, OBSERVATION_START_TIME,
                 ENTRY_START_TIME, ENTRY_END_TIME, TRAIL_ACTIVATION_TIME,
                 SQUARE_OFF_TIME >>

\* prices the data feed reports (0: no price available)
EntryLtps == {0, TARGET_PREMIUM, TARGET_PREMIUM + 20}
VerifyLtps == {0, TARGET_PREMIUM, TARGET_PREMIUM + 20}
ManageLtps == {0, 177, 225, 240}
\* the same with the prices next to the failsafe level of a stop at 180
BoundaryLtps == ManageLtps \cup {178, 179}
\* lows of the last 5-minute candle (0: no candle returned)
CandleLows == {0, 190}

None == 0

VARIABLES
    mode,               \* ctx.mode, also the BOT_MODE setting
    paused,             \* ctx.paused
    dbPaused,           \* the PAUSED setting in the params table
    killed,             \* ctx.killed, also the KILLED setting
    broker,             \* ctx.broker: "none", "paper" or "live"
    active_position,    \* strategy.active_position
    trade_taken_today,  \* strategy.trade_taken_today
    entry_locked,       \* strategy.entry_locked
    strikes_selected,   \* strategy.strikes_selected
    selected_strikes,   \* strategy.selected_strikes
    risk_free_done,     \* strategy.risk_free_done
    is_holiday,         \* strategy.is_holiday
    holiday_checked,    \* strategy.holiday_checked
    paper,              \* the PaperBroker instance: working orders, positions
    live,               \* the Upstox account: working orders, net positions
    ledger,             \* the trades table
    holidays,           \* the broker's holiday calendar
    holiday_api,        \* whether the broker's holiday query succeeds
    prices,             \* the prices the feed reports for a held contract
    params,             \* ctx.params, the strategy parameters in memory
    pc,                 \* where the main thread is inside run_tick
    tk,                 \* the local variables of the tick in progress
    day,                \* calendar day
    now,                \* index into ClockTimes
    opsLeft,            \* commands and restarts still allowed
    faultsLeft,         \* broker failures still allowed
    entries,            \* entry BUY orders accepted today, per run mode
    ev                  \* what the last step did: operation, inputs, broker calls

vars == << mode, paused, dbPaused, killed, broker, active_position,
           trade_taken_today, entry_locked, strikes_selected, selected_strikes,
           risk_free_done, is_holiday, holiday_checked, paper, live, ledger,
           holidays, holiday_api, prices, params, pc, tk, day, now, opsLeft,
           faultsLeft, entries, ev >>

(***************************************************************************)
(* Helpers                                                                 *)
(***************************************************************************)
Max(S) == CHOOSE x \in S : \A y \in S : y <= x

RECURSIVE SumPnl(_)
SumPnl(trades) ==
    IF trades = << >> THEN 0 ELSE Head(trades).pnl + SumPnl(Tail(trades))

Abs(x) == IF x < 0 THEN -x ELSE x

\* str.upper() on the run mode
Upper(m) == IF m = "paper" THEN "PAPER" ELSE "LIVE"

Time == ClockTimes[now]

NoPosition ==
    [key |-> "NONE", type |-> "NONE", entry_price |-> 0, quantity |-> 0,
     sl |-> 0, target |-> 0, sl_order_id |-> None]

NoStrikes == [CE |-> "NONE", PE |-> "NONE"]

\* the params table as seeded from config.py
DefaultParams ==
    [TARGET_PREMIUM |-> TARGET_PREMIUM, TARGET_POINTS |-> TARGET_POINTS,
     SL_POINTS |-> SL_POINTS, LOT_SIZE |-> LOT_SIZE]

\* no tick in progress
NoTick ==
    [type |-> "NONE", trigger_price |-> 0, ltp |-> 0, lot_size |-> 0,
     sl_pts |-> 0, read |-> << >>, started |-> 0, ltps |-> << >>]

EmptyBroker == [orders |-> << >>, positions |-> << >>]

(***************************************************************************)
(* Trade ledger (src/infra/db.py)                                          *)
(***************************************************************************)
\* date.weekday(): Monday is 0; day 1 is a Monday
Weekday(d) == (d - 1) % DAYS_PER_WEEK

\* get_weekly_pnl: SUM(pnl) of the trades dated on or after this week's Monday
get_weekly_pnl(trades, today) ==
    LET start_of_week == today - Weekday(today)
    IN  SumPnl(SelectSeq(trades, LAMBDA t : t.date >= start_of_week))

\* SELECT count(*) FROM trades WHERE date=? AND mode=?
CountTradesToday(trades, today, m) ==
    Len(SelectSeq(trades, LAMBDA t : t.date = today /\ t.mode = Upper(m)))

\* log_trade: one row appended
log_trade(trades, row) == Append(trades, row)

(***************************************************************************)
(* Execution brokers.  A broker state holds the working orders (status     *)
(* "open" or "trigger pending") in placement order and the net positions.  *)
(***************************************************************************)
OrderIds(bk) == {bk.orders[i].order_id : i \in 1 .. Len(bk.orders)}

HasOrder(bk, id) == id \in OrderIds(bk)

\* a fresh order id (uuid4 in PaperBroker, the exchange's id in Upstox)
FreshId(bk, held) == 1 + Max(OrderIds(bk) \cup {held})

\* PaperBroker._update_internal_position
UpdateInternalPosition(positions, key, type_, qty, price) ==
    LET net_qty == IF type_ = "BUY" THEN qty ELSE -qty
        idx == {i \in 1 .. Len(positions) : positions[i].instrument_token = key}
    IN  IF idx # {}
        THEN LET i == CHOOSE j \in idx : \A k \in idx : j <= k
                 new_qty == positions[i].quantity + net_qty
             IN  [positions EXCEPT
                    ![i] = [instrument_token |-> key,
                            quantity |-> new_qty,
                            average_price |->
                                IF new_qty # 0 THEN price
                                ELSE positions[i].average_price]]
        ELSE Append(positions,
                    [instrument_token |-> key, quantity |-> net_qty,
                     average_price |-> price])

\* PaperBroker.place_order: the order book and positions after an accepted order
PaperPlaceOrder(bk, id, key, side, qty, otype, trigger, price, feed) ==
    LET ltp == IF feed = 0 THEN 180 ELSE feed
        filled == \/ otype = "MARKET"
                  \/ otype = "LIMIT" /\ side = "BUY" /\ price >= ltp
                  \/ otype = "LIMIT" /\ side = "SELL" /\ price <= ltp
        status == IF otype = "LIMIT" THEN "open" ELSE "trigger pending"
    IN  IF filled
        THEN [bk EXCEPT !.positions =
                          UpdateInternalPosition(bk.positions, key, side, qty, ltp)]
        ELSE [bk EXCEPT !.orders =
                          Append(bk.orders,
                                 [order_id |-> id, instrument_token |-> key,
                                  transaction_type |-> side, quantity |-> qty,
                                  order_type |-> otype, status |-> status,
                                  trigger_price |-> trigger])]

\* modify_order on an order the broker knows: the trigger price is replaced
ModifyOrder(bk, id, trigger) ==
    [bk EXCEPT !.orders =
        [i \in 1 .. Len(bk.orders) |->
            IF bk.orders[i].order_id = id
            THEN [bk.orders[i] EXCEPT !.trigger_price = trigger]
            ELSE bk.orders[i]]]

\* cancel_order: the order stops working
CancelOrder(bk, id) ==
    [bk EXCEPT !.orders = SelectSeq(bk.orders, LAMBDA o : o.order_id # id)]

\* PaperBroker.get_open_orders: only "trigger pending"
PaperOpenOrders(bk) == SelectSeq(bk.orders, LAMBDA o : o.status = "trigger pending")

\* UpstoxClient.get_open_orders: "open" and "trigger pending"
UpstoxOpenOrders(bk) ==
    SelectSeq(bk.orders, LAMBDA o : o.status \in {"open", "trigger pending"})

get_open_orders(kind, bk) ==
    IF kind = "paper" THEN PaperOpenOrders(bk) ELSE UpstoxOpenOrders(bk)

\* cancel_all_orders: PaperBroker cancels the "trigger pending" orders,
\* UpstoxClient every order get_open_orders returns
cancel_all_orders(kind, bk) ==
    LET gone == get_open_orders(kind, bk)
        ids == {gone[i].order_id : i \in 1 .. Len(gone)}
    IN  [bk EXCEPT !.orders = SelectSeq(bk.orders, LAMBDA o : o.order_id \notin ids)]

\* close_all_positions: PaperBroker empties its list, UpstoxClient sends a
\* MARKET order against every nonzero net quantity
close_all_positions(kind, bk) ==
    IF kind = "paper"
    THEN [bk EXCEPT !.positions = << >>]
    ELSE [bk EXCEPT !.positions =
            [i \in 1 .. Len(bk.positions) |->
                [bk.positions[i] EXCEPT !.quantity = 0]]]

\* _init_broker: no broker when killed, else the engine of the run mode
\* (a new PaperBroker starts with no orders and no positions)
InitBrokerKind(k, m) == IF k THEN "none" ELSE m

InitPaper(k, m, old) == EmptyBroker

(***************************************************************************)
(* Reconciler (src/core/reconciliation.py)                                 *)
(***************************************************************************)
\* _check_db_history: any trade today in the current mode uses the quota
check_db_history(taken, trades, today, m) ==
    IF CountTradesToday(trades, today, m) > 0 THEN TRUE ELSE taken

\* faulty variant: the stop orders of any instrument
MatchingStopsAnyToken(open_orders, token) ==
    SelectSeq(open_orders,
              LAMBDA o : /\ o.transaction_type = "SELL"
                         /\ o.order_type \in {"SL", "SL-M"})

\* the SELL stop-trigger orders on the position's instrument
MatchingStops(open_orders, token) ==
    SelectSeq(open_orders,
              LAMBDA o : /\ o.transaction_type = "SELL"
                         /\ o.order_type \in {"SL", "SL-M"}
                         /\ o.instrument_token = token)

\* faulty variant: the broker's quantity added to the quantity already held
check_live_broker_state_merged(pos, kind, bk) ==
    IF kind = "none" THEN pos
    ELSE LET open_pos == SelectSeq(bk.positions, LAMBDA p : p.quantity # 0)
         IN  IF open_pos = << >> THEN pos
             ELSE LET p == open_pos[1]
                      stops == MatchingStops(get_open_orders(kind, bk),
                                             p.instrument_token)
                      base == [key |-> p.instrument_token, type |-> "UNKNOWN",
                               entry_price |-> p.average_price,
                               quantity |-> pos.quantity + p.quantity, sl |-> 0,
                               target |-> p.average_price + TARGET_POINTS,
                               sl_order_id |-> None]
                  IN  IF stops = << >> THEN base
                      ELSE [base EXCEPT !.sl_order_id = stops[1].order_id,
                                        !.sl = stops[1].trigger_price]

\* faulty variant: a stop at the default distance assumed when none is found
check_live_broker_state_default_stop(pos, kind, bk) ==
    IF kind = "none" THEN pos
    ELSE LET open_pos == SelectSeq(bk.positions, LAMBDA p : p.quantity # 0)
         IN  IF open_pos = << >> THEN pos
             ELSE LET p == open_pos[1]
                      stops == MatchingStops(get_open_orders(kind, bk),
                                             p.instrument_token)
                      base == [key |-> p.instrument_token, type |-> "UNKNOWN",
                               entry_price |-> p.average_price,
                               quantity |-> p.quantity,
                               sl |-> p.average_price - SL_POINTS,
                               target |-> p.average_price + TARGET_POINTS,
                               sl_order_id |-> None]
                  IN  IF stops = << >> THEN base
                      ELSE [base EXCEPT !.sl_order_id = stops[1].order_id,
                                        !.sl = stops[1].trigger_price]

\* _check_live_broker_state: the position rebuilt from the broker, or the
\* strategy's own when the broker is absent or holds no open position
check_live_broker_state(pos, kind, bk) ==
    IF kind = "none" THEN pos
    ELSE LET open_pos == SelectSeq(bk.positions, LAMBDA p : p.quantity # 0)
         IN  IF open_pos = << >> THEN pos
             ELSE LET p == open_pos[1]
                      stops == MatchingStops(get_open_orders(kind, bk),
                                             p.instrument_token)
                      base == [key |-> p.instrument_token, type |-> "UNKNOWN",
                               entry_price |-> p.average_price,
                               quantity |-> p.quantity, sl |-> 0,
                               target |-> p.average_price + TARGET_POINTS,
                               sl_order_id |-> None]
                  IN  IF stops = << >> THEN base
                      ELSE [base EXCEPT !.sl_order_id = stops[1].order_id,
                                        !.sl = stops[1].trigger_price]

\* the alerts of sync_at_startup: one when a position was rebuilt, with or
\* without a stop order (a missing stop order is only logged)
ReconAlerts(k, kind, bk) ==
    IF k \/ kind = "none" THEN << >>
    ELSE IF SelectSeq(bk.positions, LAMBDA p : p.quantity # 0) = << >>
    THEN << >>
    ELSE << "resumed" >>

\* telegram_alert: messages go to the callback when one is registered and
\* to the log otherwise
telegram_alert(callback, msgs) ==
    [alerts |-> IF callback THEN msgs ELSE << >>,
     unsent |-> IF callback THEN << >> ELSE msgs]

\* sync_at_startup: skipped when killed, else ledger check, then broker check
sync_at_startup(st, k, m, kind, bk, trades, today) ==
    IF k THEN st
    ELSE [st EXCEPT
            !.trade_taken_today =
                check_db_history(st.trade_taken_today, trades, today, m),
            !.active_position =
                check_live_broker_state(st.active_position, kind, bk)]

\* NiftyStrategy.__init__: the fields of a new strategy object
NewStrategy ==
    [active_position |-> NoPosition, trade_taken_today |-> FALSE]

(***************************************************************************)
(* Strike selection (src/core/strategy.py)                                 *)
(***************************************************************************)
\* faulty variant: the last contract at the least distance
BestMatchLast(list, target_premium) ==
    LET dist(i) == Abs(list[i].ltp - target_premium)
        best == CHOOSE i \in 1 .. Len(list) :
                    /\ \A j \in 1 .. Len(list) : dist(i) <= dist(j)
                    /\ \A j \in (i + 1) .. Len(list) : dist(j) > dist(i)
    IN  list[best]

\* min(list, key=|ltp - target|): the first contract at the least distance
BestMatch(list, target_premium) ==
    LET dist(i) == Abs(list[i].ltp - target_premium)
        best == CHOOSE i \in 1 .. Len(list) :
                    /\ \A j \in 1 .. Len(list) : dist(i) <= dist(j)
                    /\ \A j \in 1 .. (i - 1) : dist(j) > dist(i)
    IN  list[best]

\* option chains the feed returns
ChainTie ==
    [CE |-> << [instrument_key |-> "CE1", ltp |-> 182],
               [instrument_key |-> "CE2", ltp |-> 178] >>,
     PE |-> << [instrument_key |-> "PE1", ltp |-> 195],
               [instrument_key |-> "PE2", ltp |-> 175] >>]

ChainNoPuts ==
    [CE |-> << [instrument_key |-> "CE1", ltp |-> 182] >>, PE |-> << >>]

Chains == {ChainTie, ChainNoPuts}

\* faulty variant: the attempt marked as done before the calls that can fail
select_strikes_marks_first(sel, strikes, spot, chain, raises) ==
    IF raises THEN << TRUE, strikes >>
    ELSE IF spot = 0 THEN << TRUE, strikes >>
    ELSE IF chain.CE = << >> \/ chain.PE = << >> THEN << TRUE, strikes >>
    ELSE << TRUE,
            [CE |-> BestMatch(chain.CE, TARGET_PREMIUM).instrument_key,
             PE |-> BestMatch(chain.PE, TARGET_PREMIUM).instrument_key] >>

\* _select_strikes: (strikes_selected, selected_strikes) after one attempt;
\* spot = 0 is a missing spot price; an exception raised inside the attempt
\* is caught and logged
select_strikes(sel, strikes, spot, chain, raises) ==
    IF raises THEN << sel, strikes >>
    ELSE IF spot = 0 THEN << sel, strikes >>
    ELSE IF chain.CE = << >> \/ chain.PE = << >> THEN << sel, strikes >>
    ELSE << TRUE,
            [CE |-> BestMatch(chain.CE, TARGET_PREMIUM).instrument_key,
             PE |-> BestMatch(chain.PE, TARGET_PREMIUM).instrument_key] >>

(***************************************************************************)
(* The strategy's working state inside one step                            *)
(***************************************************************************)
\* the execution broker's state
Bk == IF broker = "paper" THEN paper ELSE live

St ==
    [active_position |-> active_position,
     trade_taken_today |-> trade_taken_today,
     entry_locked |-> entry_locked,
     strikes_selected |-> strikes_selected,
     selected_strikes |-> selected_strikes,
     risk_free_done |-> risk_free_done,
     is_holiday |-> is_holiday,
     holiday_checked |-> holiday_checked,
     bk |-> Bk,
     ledger |-> ledger,
     entries |-> entries,
     faults |-> faultsLeft,
     lot_size |-> params.LOT_SIZE,
     sl_pts |-> params.SL_POINTS,
     tgt_pts |-> params.TARGET_POINTS,
     ltp |-> 0,
     legs |-> << >>,
     calls |-> << >>,
     raised |-> FALSE,
     select |-> "none",
     alerts |-> << >>]

\* one broker call as the broker sees it
Call(f, side, otype, key, qty, price, trigger, id) ==
    [f |-> f, side |-> side, otype |-> otype, key |-> key, qty |-> qty,
     price |-> price, trigger |-> trigger, id |-> id]

Called(s, c) == [s EXCEPT !.calls = Append(s.calls, c)]

Alerted(s, a) == [s EXCEPT !.alerts = Append(s.alerts, a)]

\* one leg of an entry pass: whether the pass read its price, and whether the
\* price was above the trigger at the first read and after the sustain wait
Leg(s, type_, read, sustained) ==
    [s EXCEPT !.legs = Append(s.legs, [type |-> type_, read |-> read,
                                       sustained |-> sustained])]

\* a broker call raised an exception into the strategy
Raised(s) == [s EXCEPT !.raised = TRUE]

\* a call the broker refused or failed
Failed(s, failed) == IF failed THEN [s EXCEPT !.faults = @ - 1] ELSE s

\* the live broker can still fail a call
CanFail(faults) == broker = "live" /\ faults > 0

\* what place_order can answer: PaperBroker always returns an id; UpstoxClient
\* returns an id, returns None (status not success) or raises ApiException
PlaceOutcomes(faults) ==
    IF CanFail(faults) THEN {"ok", "none", "raise"} ELSE {"ok"}

\* what modify_order can answer: PaperBroker knows the order or does not;
\* UpstoxClient may fail on a working order and fails on any other
ModifyOutcomes(s, id) ==
    IF HasOrder(s.bk, id) /\ CanFail(s.faults) THEN BOOLEAN
    ELSE {HasOrder(s.bk, id)}

\* what cancel_order can answer
CancelOutcomes(faults) == IF CanFail(faults) THEN BOOLEAN ELSE {TRUE}

\* the price the broker sees when an entry LIMIT order arrives
PlaceFeeds(entry_price) == {entry_price}

(***************************************************************************)
(* NiftyStrategy (src/core/strategy.py)                                    *)
(***************************************************************************)
\* broker.get_holidays: the calendar, or an empty list when the query fails
get_holidays == IF holiday_api THEN holidays ELSE {}

\* _check_holiday_status with the holiday list the broker returned
check_holiday_status(s, fetched) ==
    IF s.holiday_checked \/ broker = "none" THEN s
    ELSE [s EXCEPT !.is_holiday = IF day \in fetched THEN TRUE ELSE @,
                   !.holiday_checked = TRUE]

\* faulty variant: the paused flag ignored
is_active_unpaused == ~killed

\* ctx.is_active
is_active == (~killed) /\ (~paused)

\* faulty variant: the watchdog also fires at exactly stop minus the margin
FailsafeHitAtMargin(ltp, current_sl) == ltp <= current_sl - FAILSAFE_MARGIN

\* the failsafe watchdog's condition
FailsafeHit(ltp, current_sl) == ltp < current_sl - FAILSAFE_MARGIN

\* the target exit's condition
TargetHit(ltp, target) == ltp >= target

\* the hard time exit's condition
TimeExitDue(t) == t >= SQUARE_OFF_TIME

\* the risk-free move's condition
RiskFreeDue(s, ltp, current_sl) ==
    /\ ~s.risk_free_done
    /\ ltp >= s.active_position.entry_price + RISK_FREE_POINTS
    /\ current_sl < s.active_position.entry_price

\* the candle trail's condition, on the stop read at the top of the tick
CandleTrailDue(current_sl, ltp, candle_low) ==
    candle_low > current_sl /\ candle_low < ltp

\* _update_sl: no call without a stop order id; the stop follows an accepted
\* modification
update_sl(s, new_price, ok) ==
    LET order_id == s.active_position.sl_order_id
    IN  IF order_id = None THEN s
        ELSE LET s1 == Called(s, Call("modify_order", "", "", "", 0, 0,
                                       new_price, order_id))
             IN  IF ok
                 THEN [s1 EXCEPT !.active_position.sl = new_price,
                                 !.bk = ModifyOrder(s.bk, order_id, new_price)]
                 ELSE Failed(s1, HasOrder(s.bk, order_id))

UpdateSlAccepted(s, ok) == s.active_position.sl_order_id # None /\ ok

\* the risk-free step of _manage_active_trade
RiskFreeMove(s, ltp, current_sl, ok) ==
    IF RiskFreeDue(s, ltp, current_sl)
    THEN LET s1 == update_sl(s, s.active_position.entry_price, ok)
         IN  IF UpdateSlAccepted(s, ok)
             THEN Alerted([s1 EXCEPT !.risk_free_done = TRUE], "risk free")
             ELSE s1
    ELSE s

\* the candle trailing step of _manage_active_trade
CandleTrail(s, ltp, current_sl, candle_low, ok) ==
    IF candle_low # 0 /\ CandleTrailDue(current_sl, ltp, candle_low)
    THEN LET s1 == update_sl(s, candle_low, ok)
         IN  IF UpdateSlAccepted(s, ok) THEN Alerted(s1, "trailing") ELSE s1
    ELSE s

\* faulty variant: the position cleared and locked also when the sell raises
close_position_clears_on_raise(s, reason, cancel_ok, sell, exit_feed) ==
    LET ap == s.active_position
        s1 == IF ap.sl_order_id # None
              THEN [Failed(Called(s, Call("cancel_order", "", "", "", 0, 0, 0,
                                          ap.sl_order_id)),
                           ~cancel_ok)
                        EXCEPT !.bk = IF cancel_ok
                                      THEN CancelOrder(s.bk, ap.sl_order_id)
                                      ELSE s.bk]
              ELSE s
        s2 == Failed(Called(s1, Call("place_order", "SELL", "MARKET", ap.key,
                                     ap.quantity, 0, 0, None)),
                     sell # "ok")
    IN  IF sell = "raise"
        THEN Raised([s2 EXCEPT !.active_position = NoPosition,
                               !.entry_locked = TRUE])
        ELSE LET bk3 == IF sell = "ok"
                        THEN PaperPlaceOrder(s2.bk, FreshId(s2.bk, None), ap.key,
                                             "SELL", ap.quantity, "MARKET", 0, 0,
                                             s.ltp)
                        ELSE s2.bk
                 pnl == (exit_feed - ap.entry_price) * ap.quantity
                 s3 == Called(s2, Call("get_ltp", "", "", ap.key, 0,
                                       exit_feed, 0, None))
             IN  Alerted([s3 EXCEPT
                            !.bk = bk3,
                            !.ledger = log_trade(s2.ledger,
                                                 [date |-> day,
                                                  mode |-> Upper(mode),
                                                  pnl |-> pnl]),
                            !.active_position = NoPosition,
                            !.entry_locked = TRUE],
                         reason)

\* faulty variant: the market sell submitted before the stop is cancelled
close_position_sell_first(s, reason, cancel_ok, sell, exit_feed) ==
    LET ap == s.active_position
        s1 == Failed(Called(s, Call("place_order", "SELL", "MARKET", ap.key,
                                    ap.quantity, 0, 0, None)),
                     sell # "ok")
        s2 == IF ap.sl_order_id # None
              THEN [Failed(Called(s1, Call("cancel_order", "", "", "", 0, 0, 0,
                                           ap.sl_order_id)),
                           ~cancel_ok)
                        EXCEPT !.bk = IF cancel_ok
                                      THEN CancelOrder(s.bk, ap.sl_order_id)
                                      ELSE s.bk]
              ELSE s1
    IN  IF sell = "raise" THEN Raised(s1)
        ELSE LET bk3 == IF sell = "ok"
                        THEN PaperPlaceOrder(s2.bk, FreshId(s2.bk, None), ap.key,
                                             "SELL", ap.quantity, "MARKET", 0, 0,
                                             s.ltp)
                        ELSE s2.bk
                 pnl == (exit_feed - ap.entry_price) * ap.quantity
                 s3 == Called(s2, Call("get_ltp", "", "", ap.key, 0,
                                       exit_feed, 0, None))
             IN  Alerted([s3 EXCEPT
                            !.bk = bk3,
                            !.ledger = log_trade(s2.ledger,
                                                 [date |-> day,
                                                  mode |-> Upper(mode),
                                                  pnl |-> pnl]),
                            !.active_position = NoPosition,
                            !.entry_locked = TRUE],
                         reason)

\* _close_position: cancel the stop, sell at market, read the exit price,
\* log, clear and lock
close_position(s, reason, cancel_ok, sell, exit_feed) ==
    LET ap == s.active_position
        s1 == IF ap.sl_order_id # None
              THEN [Failed(Called(s, Call("cancel_order", "", "", "", 0, 0, 0,
                                          ap.sl_order_id)),
                           ~cancel_ok)
                        EXCEPT !.bk = IF cancel_ok
                                      THEN CancelOrder(s.bk, ap.sl_order_id)
                                      ELSE s.bk]
              ELSE s
        s2 == Failed(Called(s1, Call("place_order", "SELL", "MARKET", ap.key,
                                     ap.quantity, 0, 0, None)),
                     sell # "ok")
    IN  IF sell = "raise" THEN Raised(s2)
        ELSE LET bk3 == IF sell = "ok"
                        THEN PaperPlaceOrder(s2.bk, FreshId(s2.bk, None), ap.key,
                                             "SELL", ap.quantity, "MARKET", 0, 0,
                                             s.ltp)
                        ELSE s2.bk
                 exit_price == exit_feed
                 pnl == (exit_price - ap.entry_price) * ap.quantity
                 s3 == Called(s2, Call("get_ltp", "", "", ap.key, 0,
                                       exit_price, 0, None))
             IN  Alerted([s3 EXCEPT
                            !.bk = bk3,
                            !.ledger = log_trade(s2.ledger,
                                                 [date |-> day,
                                                  mode |-> Upper(mode),
                                                  pnl |-> pnl]),
                            !.active_position = NoPosition,
                            !.entry_locked = TRUE],
                         reason)

\* faulty variant: the stop set at the target's distance
NewPositionWideStop(key, type_, entry_price, lot_size, sl_pts, tgt_pts) ==
    [key |-> key, type |-> type_, entry_price |-> entry_price,
     quantity |-> lot_size, sl |-> entry_price - tgt_pts,
     target |-> entry_price + tgt_pts, sl_order_id |-> None]

\* the position _execute_trade creates
NewPosition(key, type_, entry_price, lot_size, sl_pts, tgt_pts) ==
    [key |-> key, type |-> type_, entry_price |-> entry_price,
     quantity |-> lot_size, sl |-> entry_price - sl_pts,
     target |-> entry_price + tgt_pts, sl_order_id |-> None]

\* faulty variant: the lock kept when the entry order raises
execute_entry_keeps_lock(s, key, entry_price, type_, buy, feed) ==
    LET s1 == Failed(Called(s, Call("place_order", "BUY", "LIMIT", key,
                                    s.lot_size, entry_price + BUFFER_POINTS,
                                    0, None)),
                     buy # "ok")
    IN  IF buy = "raise" THEN Alerted(Raised(s1), "execution failed")
        ELSE IF buy = "none" THEN s1
        ELSE [s1 EXCEPT
                !.bk = PaperPlaceOrder(s.bk, FreshId(s.bk, None), key, "BUY",
                                       s.lot_size, "LIMIT", 0,
                                       entry_price + BUFFER_POINTS, feed),
                !.trade_taken_today = TRUE,
                !.entries = [@ EXCEPT ![mode] = @ + 1],
                !.active_position = NewPosition(key, type_, entry_price,
                                                s.lot_size, s.sl_pts,
                                                s.tgt_pts)]

\* _execute_trade up to and including the entry order
execute_entry(s, key, entry_price, type_, buy, feed) ==
    LET s1 == Failed(Called(s, Call("place_order", "BUY", "LIMIT", key,
                                    s.lot_size, entry_price + BUFFER_POINTS,
                                    0, None)),
                     buy # "ok")
    IN  IF buy = "raise"
        THEN Alerted(Raised([s1 EXCEPT !.entry_locked = FALSE]),
                     "execution failed")
        ELSE IF buy = "none" THEN s1
        ELSE [s1 EXCEPT
                !.bk = PaperPlaceOrder(s.bk, FreshId(s.bk, None), key, "BUY",
                                       s.lot_size, "LIMIT", 0,
                                       entry_price + BUFFER_POINTS, feed),
                !.trade_taken_today = TRUE,
                !.entries = [@ EXCEPT ![mode] = @ + 1],
                !.active_position = NewPosition(key, type_, entry_price,
                                                s.lot_size, s.sl_pts,
                                                s.tgt_pts)]

\* _execute_trade after an accepted entry: the stop order
execute_stop(s, sl) ==
    LET ap == s.active_position
        id == FreshId(s.bk, None)
        s1 == Failed(Called(s, Call("place_order", "SELL", "SL-M", ap.key,
                                    ap.quantity, 0, ap.sl, None)),
                     sl # "ok")
    IN  IF sl = "raise"
        THEN Alerted(Raised([s1 EXCEPT !.entry_locked = FALSE]),
                     "execution failed")
        ELSE IF sl = "none" THEN Alerted(s1, "entry")
        ELSE Alerted([s1 EXCEPT
                        !.bk = PaperPlaceOrder(s.bk, id, ap.key, "SELL",
                                               ap.quantity, "SL-M", ap.sl, 0, 0),
                        !.active_position.sl_order_id = id],
                     "entry")

\* faulty variant: the gate also blocks at exactly minus the threshold
WeeklyGateBlocksAtLimit(weekly_pnl) == weekly_pnl <= -Abs(WEEKLY_MAX_LOSS)

\* the weekly loss gate of _check_entry_signal
WeeklyGateBlocks(weekly_pnl) == weekly_pnl < -Abs(WEEKLY_MAX_LOSS)

\* a breakout: the price strictly above the trigger premium
Breakout(ltp) == ltp # 0 /\ ltp > TARGET_PREMIUM

(***************************************************************************)
(* Steps                                                                   *)
(***************************************************************************)
Event(op, s) ==
    [op |-> op, ltp |-> s.ltp, legs |-> s.legs, calls |-> s.calls,
     raised |-> s.raised, select |-> s.select, alerts |-> s.alerts,
     unsent |-> << >>,
     gate_alerts |->
        ev.gate_alerts
            + Cardinality({i \in 1 .. Len(s.alerts) :
                            s.alerts[i] = "weekly max loss"})]

\* a step that made no call and raised no alert, on a day on which no
\* weekly-loss alert was raised so far
Silent(op) ==
    [op |-> op, ltp |-> 0, legs |-> << >>, calls |-> << >>, raised |-> FALSE,
     select |-> "none", alerts |-> << >>, unsent |-> << >>, gate_alerts |-> 0]

\* the same, the day's count of weekly-loss alerts carried on
Quiet(op) == [Silent(op) EXCEPT !.gate_alerts = ev.gate_alerts]

\* the end of a tick: the strategy's fields and the broker it traded on
Commit(s) ==
    /\ active_position' = s.active_position
    /\ trade_taken_today' = s.trade_taken_today
    /\ entry_locked' = s.entry_locked
    /\ strikes_selected' = s.strikes_selected
    /\ selected_strikes' = s.selected_strikes
    /\ risk_free_done' = s.risk_free_done
    /\ is_holiday' = s.is_holiday
    /\ holiday_checked' = s.holiday_checked
    /\ paper' = IF broker = "paper" THEN s.bk ELSE paper
    /\ live' = IF broker = "live" THEN s.bk ELSE live
    /\ ledger' = s.ledger
    /\ entries' = s.entries
    /\ faultsLeft' = s.faults
    /\ ev' = Event("tick", s)
    /\ UNCHANGED << mode, paused, dbPaused, killed, broker, holidays, holiday_api, prices,
                    params, day, now, opsLeft >>

\* what get_ltp can answer after the market sell: a price the feed reports
\* within MaxSlip points of the price the tick read first
ExitFeeds(ltp) == {p \in prices : p # 0 /\ Abs(p - ltp) <= MaxSlip}

\* _close_position with what the broker answers
Close(s, reason) ==
    \E cancel_ok \in (IF s.active_position.sl_order_id # None
                       THEN CancelOutcomes(s.faults) ELSE {TRUE}) :
    \E sell \in PlaceOutcomes(IF cancel_ok THEN s.faults ELSE s.faults - 1) :
    \E exit_feed \in ExitFeeds(s.ltp) :
        Commit(close_position(s, reason, cancel_ok, sell, exit_feed))

\* the stop moves of _manage_active_trade, after the three exits
Trail(s, ltp, current_sl) ==
    \E rf_ok \in (IF RiskFreeDue(s, ltp, current_sl)
                  THEN ModifyOutcomes(s, s.active_position.sl_order_id)
                  ELSE {FALSE}) :
        LET s1 == RiskFreeMove(s, ltp, current_sl, rf_ok)
        IN  IF Time >= TRAIL_ACTIVATION_TIME
            THEN \E candle_low \in CandleLows :
                 \E tr_ok \in (IF candle_low # 0
                                  /\ CandleTrailDue(current_sl, ltp, candle_low)
                               THEN ModifyOutcomes(s1, s1.active_position.sl_order_id)
                               ELSE {FALSE}) :
                     Commit(CandleTrail(s1, ltp, current_sl, candle_low, tr_ok))
            ELSE Commit(s1)

\* faulty variant: the time exit checked before the failsafe and the target
ManagedTimeFirst(s0, ltp) ==
    LET s == [s0 EXCEPT !.ltp = ltp]
        current_sl == s.active_position.sl
    IN  IF ltp = 0 THEN Commit(s)
        ELSE IF TimeExitDue(Time) THEN Close(s, "time exit")
        ELSE IF FailsafeHit(ltp, current_sl) THEN Close(s, "failsafe")
        ELSE IF TargetHit(ltp, s.active_position.target) THEN Close(s, "target")
        ELSE Trail(s, ltp, current_sl)

\* _manage_active_trade once get_ltp has answered: failsafe, target, time
\* exit, then the stop moves
Managed(s0, ltp) ==
    LET s == [s0 EXCEPT !.ltp = ltp]
        current_sl == s.active_position.sl
    IN  IF ltp = 0 THEN Commit(s)
        ELSE IF FailsafeHit(ltp, current_sl) THEN Close(s, "failsafe")
        ELSE IF TargetHit(ltp, s.active_position.target) THEN Close(s, "target")
        ELSE IF TimeExitDue(Time) THEN Close(s, "time exit")
        ELSE Trail(s, ltp, current_sl)

\* _manage_active_trade: the price of the held contract, then the checks
manage_active_trade(s0) == \E ltp \in prices : Managed(s0, ltp)

\* _execute_trade with what the broker answers
ExecuteTrade(s, key, entry_price, type_) ==
    \E buy \in PlaceOutcomes(s.faults) :
    \E feed \in (IF buy = "ok" THEN PlaceFeeds(entry_price) ELSE {0}) :
        LET s1 == execute_entry(s, key, entry_price, type_, buy, feed)
        IN  IF buy = "ok"
            THEN \E sl \in PlaceOutcomes(s1.faults) : Commit(execute_stop(s1, sl))
            ELSE Commit(s1)

\* the two reads of one leg around the sustain wait; the second read is made
\* only after a breakout on the first
LegReads ==
    {r \in EntryLtps \X VerifyLtps : Breakout(r[1]) \/ r[2] = TARGET_PREMIUM}

\* a breakout that is still there after the wait
Sustained(r) == Breakout(r[1]) /\ r[2] > TARGET_PREMIUM

\* the lock re-checked, taken, and the order sent
Enter(s, type_, verified_ltp) ==
    IF s.entry_locked THEN Commit(s)
    ELSE ExecuteTrade([s EXCEPT !.entry_locked = TRUE, !.ltp = verified_ltp],
                      s.selected_strikes[type_], verified_ltp, type_)

\* the put leg of _check_entry_signal, the last of the loop
LegPE(s) ==
    IF s.entry_locked THEN Commit(s)
    ELSE \E r \in LegReads :
            IF Sustained(r) THEN Enter(Leg(s, "PE", TRUE, TRUE), "PE", r[2])
            ELSE Commit(Leg(s, "PE", TRUE, FALSE))

\* faulty variant: when both legs sustain, the put leg is the one entered
LegCE_put_wins(s) ==
    IF s.entry_locked THEN Commit(s)
    ELSE \E r \in LegReads :
            IF Sustained(r)
            THEN \E put \in BOOLEAN :
                    Enter(Leg(Leg(s, "CE", TRUE, TRUE), "PE", FALSE, put),
                          IF put THEN "PE" ELSE "CE", r[2])
            ELSE LegPE(Leg(s, "CE", TRUE, FALSE))

\* the call leg of _check_entry_signal, the first of the loop; when it
\* sustains the pass returns without reading the put leg, whose price may or
\* may not be sustaining above the trigger at that time
LegCE(s) ==
    IF s.entry_locked THEN Commit(s)
    ELSE \E r \in LegReads :
            IF Sustained(r)
            THEN \E put \in BOOLEAN :
                    Enter(Leg(Leg(s, "CE", TRUE, TRUE), "PE", FALSE, put),
                          "CE", r[2])
            ELSE LegPE(Leg(s, "CE", TRUE, FALSE))

\* faulty variant: the gate blocks the tick without taking the lock
check_entry_signal_gate_unlocked(s) ==
    IF s.entry_locked THEN Commit(s)
    ELSE IF WeeklyGateBlocks(get_weekly_pnl(s.ledger, day))
    THEN Commit(Alerted(s, "weekly max loss"))
    ELSE LegCE(s)

\* _check_entry_signal: the weekly loss gate, then the call leg, then the put leg
check_entry_signal(s) ==
    IF s.entry_locked THEN Commit(s)
    ELSE IF WeeklyGateBlocks(get_weekly_pnl(s.ledger, day))
    THEN Commit(Alerted([s EXCEPT !.entry_locked = TRUE], "weekly max loss"))
    ELSE LegCE(s)

\* what _select_strikes meets: the spot price, the chain, and whether a
\* call inside the attempt raises
SelectInputs ==
    {<< 0, ChainTie, FALSE >>, << 24000, ChainTie, TRUE >>}
        \cup ({24000} \X Chains \X {FALSE})

\* how one attempt of _select_strikes ended: it failed (no spot price, an
\* empty leg, or an exception caught) or it selected the strikes
SelectOutcome(spot, chain, raises) ==
    IF raises \/ spot = 0 \/ chain.CE = << >> \/ chain.PE = << >>
    THEN "failed"
    ELSE "selected"

\* _select_strikes on the strategy's state
Selected(s, in) ==
    LET r == select_strikes(s.strikes_selected, s.selected_strikes, in[1],
                            in[2], in[3])
    IN  [s EXCEPT !.strikes_selected = r[1], !.selected_strikes = r[2],
                  !.select = SelectOutcome(in[1], in[2], in[3])]

\* faulty variant: the entry phase without its end time
Phases_open_ended(s) ==
    IF s.trade_taken_today \/ s.entry_locked THEN Commit(s)
    ELSE IF OBSERVATION_START_TIME <= Time /\ Time < ENTRY_START_TIME
    THEN IF ~s.strikes_selected
         THEN \E in \in SelectInputs : Commit(Selected(s, in))
         ELSE Commit(s)
    ELSE IF ENTRY_START_TIME <= Time
    THEN IF ~s.strikes_selected
         THEN \E in \in SelectInputs :
                LET s1 == Selected(s, in)
                IN  IF s1.strikes_selected THEN check_entry_signal(s1)
                    ELSE Commit(s1)
         ELSE check_entry_signal(s)
    ELSE Commit(s)

\* the phases of run_tick for a strategy that holds no position
Phases(s) ==
    IF s.trade_taken_today \/ s.entry_locked THEN Commit(s)
    ELSE IF OBSERVATION_START_TIME <= Time /\ Time < ENTRY_START_TIME
    THEN IF ~s.strikes_selected
         THEN \E in \in SelectInputs : Commit(Selected(s, in))
         ELSE Commit(s)
    ELSE IF ENTRY_START_TIME <= Time /\ Time < ENTRY_END_TIME
    THEN IF ~s.strikes_selected
         THEN \E in \in SelectInputs :
                LET s1 == Selected(s, in)
                IN  IF s1.strikes_selected THEN check_entry_signal(s1)
                    ELSE Commit(s1)
         ELSE check_entry_signal(s)
    ELSE Commit(s)

\* faulty variant: the day's flags, not the held position, decide whether
\* the tick manages or evaluates entry
run_tick_flags_first ==
    /\ pc = "idle"
    /\ \E fetched \in {get_holidays} :
        LET s == check_holiday_status(St, fetched)
        IN  IF s.is_holiday THEN Commit(s)
            ELSE IF ~is_active THEN Commit(s)
            ELSE IF s.trade_taken_today \/ s.entry_locked
            THEN IF s.active_position # NoPosition THEN manage_active_trade(s)
                 ELSE Commit(s)
            ELSE Phases(s)
    /\ UNCHANGED << pc, tk >>

\* run_tick, from the call in the main loop to its return
run_tick ==
    /\ pc = "idle"
    /\ \E fetched \in {get_holidays} :
        LET s == check_holiday_status(St, fetched)
        IN  IF s.is_holiday THEN Commit(s)
            ELSE IF ~is_active THEN Commit(s)
            ELSE IF s.active_position # NoPosition THEN manage_active_trade(s)
            ELSE Phases(s)
    /\ UNCHANGED << pc, tk >>

(***************************************************************************)
(* Operator commands (src/core/context.py, src/tg_bot/controller.py).      *)
(* A command that would leave every field as it is, is not a step.         *)
(***************************************************************************)
Spent(e) ==
    /\ opsLeft > 0
    /\ opsLeft' = opsLeft - 1
    /\ ev' = e
    /\ UNCHANGED << pc, tk >>

Spend(op) == Spent(Quiet(op))

\* /pause: toggle_pause(True)
toggle_pause_on ==
    /\ ~(paused /\ dbPaused)
    /\ Spend("pause")
    /\ paused' = TRUE
    /\ dbPaused' = TRUE
    /\ UNCHANGED << mode, killed, broker, active_position, trade_taken_today,
                    entry_locked, strikes_selected, selected_strikes,
                    risk_free_done, is_holiday, holiday_checked, paper, live,
                    ledger, holidays, holiday_api, prices, params, day, now, entries, faultsLeft >>

\* /resume: refused when killed, else toggle_pause(False)
cmd_resume ==
    /\ ~killed
    /\ paused \/ dbPaused
    /\ Spend("resume")
    /\ paused' = FALSE
    /\ dbPaused' = FALSE
    /\ UNCHANGED << mode, killed, broker, active_position, trade_taken_today,
                    entry_locked, strikes_selected, selected_strikes,
                    risk_free_done, is_holiday, holiday_checked, paper, live,
                    ledger, holidays, holiday_api, prices, params, day, now, entries, faultsLeft >>

\* the strategy fields switch_mode resets
SwitchReset(st) ==
    [st EXCEPT !.active_position = NoPosition,
               !.entry_locked = FALSE,
               !.trade_taken_today = FALSE]

\* /mode: switch_mode(new_mode)
switch_mode ==
    \E new_mode \in Modes :
        LET st == SwitchReset(St)
        IN  /\ Spend("switch_mode")
            /\ mode' = new_mode
            /\ broker' = InitBrokerKind(killed, new_mode)
            /\ paper' = InitPaper(killed, new_mode, paper)
            /\ active_position' = st.active_position
            /\ entry_locked' = st.entry_locked
            /\ trade_taken_today' = st.trade_taken_today
            /\ UNCHANGED << paused, dbPaused, killed, strikes_selected,
                            selected_strikes, risk_free_done, is_holiday,
                            holiday_checked, live, ledger, holidays, holiday_api, prices, params, day, now,
                            entries, faultsLeft >>

\* /kill_confirm: emergency_kill; the broker sweeps may fail (UpstoxClient
\* swallows the errors)
emergency_kill ==
    \E swept \in CancelOutcomes(faultsLeft) :
        LET bk1 == IF swept THEN cancel_all_orders(broker, Bk) ELSE Bk
            bk2 == IF swept THEN close_all_positions(broker, bk1) ELSE bk1
        IN  /\ ~(killed /\ paused)
            /\ Spend("kill")
            /\ killed' = TRUE
            /\ paused' = TRUE
            /\ live' = IF broker = "live" THEN bk2 ELSE live
            /\ paper' = IF broker = "paper" THEN bk2 ELSE paper
            /\ broker' = "none"
            /\ faultsLeft' = IF swept THEN faultsLeft ELSE faultsLeft - 1
            /\ UNCHANGED << mode, dbPaused, active_position, trade_taken_today,
                            entry_locked, strikes_selected, selected_strikes,
                            risk_free_done, is_holiday, holiday_checked, ledger,
                            holidays, holiday_api, prices, params, day, now, entries >>

\* /system_reset: system_reset
system_reset ==
    /\ killed \/ paused
    /\ Spend("system_reset")
    /\ killed' = FALSE
    /\ paused' = FALSE
    /\ broker' = InitBrokerKind(FALSE, mode)
    /\ paper' = InitPaper(FALSE, mode, paper)
    /\ UNCHANGED << mode, dbPaused, active_position, trade_taken_today,
                    entry_locked, strikes_selected, selected_strikes,
                    risk_free_done, is_holiday, holiday_checked, live, ledger,
                    holidays, holiday_api, prices, params, day, now, entries, faultsLeft >>

(***************************************************************************)
(* Process start (src/main.py, TradingContext.__init__, reload_state,      *)
(* NiftyStrategy.__init__)                                                 *)
(***************************************************************************)
\* the fields a new process holds before its first tick: settings loaded,
\* broker created, strategy constructed, reconciler run; the reconciler's
\* alerts are raised inside TradingContext.__init__, before main creates the
\* TelegramController that registers the alert callback
Started(m, k, p, liveAccount, trades, today) ==
    LET kind == InitBrokerKind(k, m)
        bk == IF kind = "paper" THEN EmptyBroker ELSE liveAccount
        st == sync_at_startup(NewStrategy, k, m, kind, bk, trades, today)
        out == telegram_alert(FALSE, ReconAlerts(k, kind, bk))
    IN  [mode |-> m, killed |-> k, paused |-> p, broker |-> kind,
         alerts |-> out.alerts, unsent |-> out.unsent,
         paper |-> EmptyBroker,
         active_position |-> st.active_position,
         trade_taken_today |-> st.trade_taken_today,
         entry_locked |-> FALSE, strikes_selected |-> FALSE,
         selected_strikes |-> NoStrikes, risk_free_done |-> FALSE,
         is_holiday |-> FALSE, holiday_checked |-> FALSE]

\* the process dies and is started again
Restart ==
    LET n == Started(mode, killed, dbPaused, live, ledger, day)
    IN  /\ Spent([Quiet("restart") EXCEPT !.alerts = n.alerts,
                                         !.unsent = n.unsent])
        /\ mode' = n.mode
        /\ killed' = n.killed
        /\ paused' = n.paused
        /\ broker' = n.broker
        /\ paper' = n.paper
        /\ active_position' = n.active_position
        /\ trade_taken_today' = n.trade_taken_today
        /\ entry_locked' = n.entry_locked
        /\ strikes_selected' = n.strikes_selected
        /\ selected_strikes' = n.selected_strikes
        /\ risk_free_done' = n.risk_free_done
        /\ is_holiday' = n.is_holiday
        /\ holiday_checked' = n.holiday_checked
        /\ UNCHANGED << dbPaused, live, ledger, holidays, holiday_api, prices, params, day, now, entries,
                        faultsLeft >>

(***************************************************************************)
(* Time                                                                    *)
(***************************************************************************)
\* the clock passes the next of ClockTimes; a tick lasts seconds, so at most
\* one of them is passed while a tick is in progress
AdvanceClock ==
    /\ now < Len(ClockTimes)
    /\ pc = "idle" \/ now = tk.started
    /\ now' = now + 1
    /\ ev' = Quiet("clock")
    /\ UNCHANGED << pc, tk >>
    /\ UNCHANGED << mode, paused, dbPaused, killed, broker, active_position,
                    trade_taken_today, entry_locked, strikes_selected,
                    selected_strikes, risk_free_done, is_holiday,
                    holiday_checked, paper, live, ledger, holidays, holiday_api, prices, params, day,
                    opsLeft, entries, faultsLeft >>

(***************************************************************************)
(* Specification                                                           *)
(***************************************************************************)
\* ledgers a process can find at its first start
InitLedgers ==
    << << >>,
       << [date |-> FirstDay - 2, mode |-> "LIVE", pnl |-> -10050],
          [date |-> FirstDay - 1, mode |-> "PAPER", pnl |-> -10000] >>,
       << [date |-> FirstDay - 1, mode |-> "LIVE", pnl |-> -10050] >>,
       << [date |-> FirstDay, mode |-> "PAPER", pnl |-> 2000] >> >>

\* a live account left by a process that died holding a position: a flat
\* instrument, the open position, and working orders of which the third is
\* the first SELL stop on the position's instrument
CrashAccount ==
    [orders |->
        << [order_id |-> 1, instrument_token |-> "CE1",
            transaction_type |-> "BUY", quantity |-> LOT_SIZE,
            order_type |-> "LIMIT",
            status |-> "open", trigger_price |-> 0],
           [order_id |-> 2, instrument_token |-> "PE2",
            transaction_type |-> "SELL", quantity |-> LOT_SIZE,
            order_type |-> "SL-M",
            status |-> "trigger pending", trigger_price |-> 150],
           [order_id |-> 3, instrument_token |-> "CE1",
            transaction_type |-> "SELL", quantity |-> LOT_SIZE,
            order_type |-> "SL-M",
            status |-> "trigger pending", trigger_price |-> 185],
           [order_id |-> 4, instrument_token |-> "CE1",
            transaction_type |-> "SELL", quantity |-> LOT_SIZE,
            order_type |-> "SL",
            status |-> "trigger pending", trigger_price |-> 170] >>,
     positions |->
        << [instrument_token |-> "PE2", quantity |-> 0, average_price |-> 190],
           [instrument_token |-> "CE1", quantity |-> LOT_SIZE,
            average_price |-> 200] >>]

\* the same account after the stop orders on the held contract were lost:
\* the position, an entry order and a stop on another contract remain
StoplessAccount ==
    [CrashAccount EXCEPT
        !.orders = SelectSeq(CrashAccount.orders,
                             LAMBDA o : ~(/\ o.transaction_type = "SELL"
                                          /\ o.instrument_token = "CE1"))]

\* the settings (run mode, KILLED, PAUSED), calendar, ledger and live account
\* a process can find at its first start
InitCases ==
    { [mode |-> "paper", killed |-> FALSE, paused |-> FALSE,
       trades |-> InitLedgers[2], hs |-> {}, account |-> EmptyBroker],
      [mode |-> "live", killed |-> FALSE, paused |-> FALSE,
       trades |-> InitLedgers[3], hs |-> {}, account |-> EmptyBroker],
      [mode |-> "live", killed |-> FALSE, paused |-> TRUE,
       trades |-> InitLedgers[3], hs |-> {}, account |-> EmptyBroker],
      [mode |-> "paper", killed |-> FALSE, paused |-> FALSE,
       trades |-> InitLedgers[4], hs |-> {}, account |-> EmptyBroker],
      [mode |-> "live", killed |-> FALSE, paused |-> FALSE,
       trades |-> InitLedgers[4], hs |-> {}, account |-> EmptyBroker],
      [mode |-> "paper", killed |-> FALSE, paused |-> FALSE,
       trades |-> InitLedgers[1], hs |-> {FirstDay}, account |-> EmptyBroker],
      [mode |-> "paper", killed |-> TRUE, paused |-> FALSE,
       trades |-> InitLedgers[4], hs |-> {}, account |-> EmptyBroker],
      [mode |-> "live", killed |-> FALSE, paused |-> FALSE,
       trades |-> InitLedgers[1], hs |-> {}, account |-> CrashAccount] }

\* a process started on the settings, calendar, ledger and account of case c,
\* with a feed that reports the prices ps
InitFrom(c, ps) ==
    LET n == Started(c.mode, c.killed, c.paused, c.account, c.trades, FirstDay)
    IN  /\ mode = n.mode
        /\ killed = n.killed
        /\ paused = n.paused
        /\ dbPaused = c.paused
        /\ broker = n.broker
        /\ paper = n.paper
        /\ live = c.account
        /\ active_position = n.active_position
        /\ trade_taken_today = n.trade_taken_today
        /\ entry_locked = n.entry_locked
        /\ strikes_selected = n.strikes_selected
        /\ selected_strikes = n.selected_strikes
        /\ risk_free_done = n.risk_free_done
        /\ is_holiday = n.is_holiday
        /\ holiday_checked = n.holiday_checked
        /\ ledger = c.trades
        /\ holidays = c.hs
        /\ holiday_api = TRUE
        /\ prices = ps
        /\ params = DefaultParams
        /\ pc = "idle"
        /\ tk = NoTick
        /\ day = FirstDay
        /\ now = 1
        /\ opsLeft = MaxOps
        /\ faultsLeft = MaxFaults
        /\ entries = [x \in Modes |-> 0]
        /\ ev = [Silent("start") EXCEPT !.alerts = n.alerts,
                                       !.unsent = n.unsent]

Init == \E c \in InitCases : InitFrom(c, ManageLtps)

Next ==
    \/ run_tick
    \/ toggle_pause_on
    \/ cmd_resume
    \/ switch_mode
    \/ emergency_kill
    \/ system_reset
    \/ Restart
    \/ AdvanceClock

Spec == Init /\ [][Next]_vars

(***************************************************************************)
(* A day on which the operator sends no command and the process is not     *)
(* restarted, with the feed also reporting the prices around the failsafe  *)
(* level                                                                   *)
(***************************************************************************)
QuietDayCases ==
    { [mode |-> "paper", killed |-> FALSE, paused |-> FALSE,
       trades |-> InitLedgers[1], hs |-> {}, account |-> EmptyBroker],
      [mode |-> "live", killed |-> FALSE, paused |-> FALSE,
       trades |-> InitLedgers[1], hs |-> {}, account |-> EmptyBroker],
      [mode |-> "live", killed |-> FALSE, paused |-> FALSE,
       trades |-> InitLedgers[1], hs |-> {}, account |-> CrashAccount],
      [mode |-> "live", killed |-> FALSE, paused |-> FALSE,
       trades |-> InitLedgers[1], hs |-> {}, account |-> StoplessAccount] }

InitQuietDay == \E c \in QuietDayCases : InitFrom(c, BoundaryLtps)

NextQuietDay ==
    \/ run_tick
    \/ AdvanceClock

SpecQuietDay == InitQuietDay /\ [][NextQuietDay]_vars

(***************************************************************************)
(* A process that keeps running over midnight, on a day without commands;  *)
(* the broker's holiday query may fail for a while                         *)
(***************************************************************************)
\* the calendar date changes; the program has no code that runs at this
\* moment, so only the clock, and the day's count of entries, change
Midnight ==
    /\ pc = "idle"
    /\ now = Len(ClockTimes)
    /\ day < FirstDay + MaxDays - 1
    /\ day' = day + 1
    /\ now' = 1
    /\ entries' = [x \in Modes |-> 0]
    /\ ev' = Silent("midnight")
    /\ UNCHANGED << mode, paused, dbPaused, killed, broker, active_position,
                    trade_taken_today, entry_locked, strikes_selected,
                    selected_strikes, risk_free_done, is_holiday,
                    holiday_checked, paper, live, ledger, holidays,
                    holiday_api, prices, params, pc, tk, opsLeft, faultsLeft >>

\* the broker's holiday query starts or stops failing
HolidayApi(up) ==
    /\ holiday_api' = up
    /\ ev' = Quiet("holiday api")
    /\ UNCHANGED << mode, paused, dbPaused, killed, broker, active_position,
                    trade_taken_today, entry_locked, strikes_selected,
                    selected_strikes, risk_free_done, is_holiday,
                    holiday_checked, paper, live, ledger, holidays, prices,
                    params, pc, tk, day, now, opsLeft, faultsLeft, entries >>

HolidayApiFails ==
    /\ holiday_api
    /\ HolidayApi(FALSE)

HolidayApiRecovers ==
    /\ ~holiday_api
    /\ HolidayApi(TRUE)

LongRunCases ==
    { [mode |-> "paper", killed |-> FALSE, paused |-> FALSE,
       trades |-> InitLedgers[1], hs |-> {}, account |-> EmptyBroker],
      [mode |-> "live", killed |-> FALSE, paused |-> FALSE,
       trades |-> InitLedgers[1], hs |-> {}, account |-> EmptyBroker],
      [mode |-> "paper", killed |-> FALSE, paused |-> FALSE,
       trades |-> InitLedgers[1], hs |-> {FirstDay}, account |-> EmptyBroker] }

InitLongRun == \E c \in LongRunCases : InitFrom(c, ManageLtps)

NextLongRun ==
    \/ run_tick
    \/ AdvanceClock
    \/ Midnight
    \/ HolidayApiFails
    \/ HolidayApiRecovers

SpecLongRun == InitLongRun /\ [][NextLongRun]_vars

(***************************************************************************)
(* A day in a week whose losses stand at or beyond the weekly limit, with  *)
(* mode switches and restarts                                              *)
(***************************************************************************)
LossWeekCases ==
    { [mode |-> "paper", killed |-> FALSE, paused |-> FALSE,
       trades |-> InitLedgers[2], hs |-> {}, account |-> EmptyBroker],
      [mode |-> "paper", killed |-> FALSE, paused |-> FALSE,
       trades |-> InitLedgers[3], hs |-> {}, account |-> EmptyBroker],
      [mode |-> "live", killed |-> FALSE, paused |-> FALSE,
       trades |-> InitLedgers[3], hs |-> {}, account |-> EmptyBroker] }

InitLossWeek == \E c \in LossWeekCases : InitFrom(c, ManageLtps)

NextLossWeek ==
    \/ run_tick
    \/ switch_mode
    \/ Restart
    \/ AdvanceClock

SpecLossWeek == InitLossWeek /\ [][NextLossWeek]_vars

(***************************************************************************)
(* A day without commands on which the exchange may trigger a resting stop *)
(* order between two ticks                                                 *)
(***************************************************************************)
\* the live account after the exchange triggered the working stop order i:
\* the order is executed at market and leaves the book
TriggerStop(bk, i) ==
    LET o == bk.orders[i]
    IN  [orders |-> SelectSeq(bk.orders, LAMBDA x : x.order_id # o.order_id),
         positions |-> UpdateInternalPosition(bk.positions, o.instrument_token,
                                              o.transaction_type, o.quantity,
                                              o.trigger_price)]

\* the market trades through the trigger price of a SELL stop order that
\* rests on a held contract of the live account
StopTriggered ==
    /\ pc = "idle"
    /\ broker = "live"
    /\ \E i \in 1 .. Len(live.orders) :
            /\ live.orders[i].transaction_type = "SELL"
            /\ live.orders[i].order_type \in {"SL", "SL-M"}
            /\ live.orders[i].status = "trigger pending"
            /\ \E j \in 1 .. Len(live.positions) :
                    /\ live.positions[j].instrument_token
                            = live.orders[i].instrument_token
                    /\ live.positions[j].quantity >= live.orders[i].quantity
            /\ live' = TriggerStop(live, i)
    /\ ev' = Quiet("stop triggered")
    /\ UNCHANGED << mode, paused, dbPaused, killed, broker, active_position,
                    trade_taken_today, entry_locked, strikes_selected,
                    selected_strikes, risk_free_done, is_holiday,
                    holiday_checked, paper, ledger, holidays, holiday_api,
                    prices, params, pc, tk, day, now, opsLeft, faultsLeft,
                    entries >>

InitExchange == \E c \in QuietDayCases : InitFrom(c, ManageLtps)

NextExchange ==
    \/ run_tick
    \/ StopTriggered
    \/ AdvanceClock

SpecExchange == InitExchange /\ [][NextExchange]_vars

(***************************************************************************)
(* The main loop and the Telegram command thread side by side.  run_tick   *)
(* takes no lock, so the command thread may run wherever the main thread   *)
(* waits: in get_ltp at the top of _manage_active_trade, in the 5 s        *)
(* sustain sleep of _check_entry_signal, and between the parameter reads   *)
(* of _execute_trade.  tk.read lists the ctx.params dictionaries the tick  *)
(* in progress has read from.                                              *)
(***************************************************************************)
\* what the operator passes to /set_strategy (target, stop-loss, quantity)
\* and to /set_trigger
SetStrategyArgs == { << 50, 10, 100 >> }
SetTriggerArgs == {190}

\* the strategy's state once run_tick has made its holiday check
HolidayChecked == check_holiday_status(St, get_holidays)

\* run_tick goes on to _manage_active_trade
Manages(s) == (~s.is_holiday) /\ is_active /\ s.active_position # NoPosition

\* run_tick goes on to the entry window's phase
EntryPhase(s) ==
    /\ ~s.is_holiday
    /\ is_active
    /\ s.active_position = NoPosition
    /\ ~s.trade_taken_today
    /\ ~s.entry_locked
    /\ ENTRY_START_TIME <= Time
    /\ Time < ENTRY_END_TIME

\* the main thread goes on to position `where` with the locals t
Yield(s, where, t) ==
    /\ Commit(s)
    /\ pc' = where
    /\ tk' = t

\* get_ltp on a leg's contract answered ltp to the entry pass in progress
Got(t, type_, ltp) ==
    [t EXCEPT !.ltps = Append(@, [type |-> type_, ltp |-> ltp])]

\* the put leg's first read
ReadPE(s, t) ==
    IF s.entry_locked THEN Yield(s, "idle", t)
    ELSE \E ltp \in EntryLtps :
            IF ltp # 0 /\ ltp > t.trigger_price
            THEN Yield(s, "sleep", [Got(t, "PE", ltp) EXCEPT !.type = "PE"])
            ELSE Yield(s, "idle", Got(t, "PE", ltp))

\* the call leg's first read
ReadCE(s, t) ==
    IF s.entry_locked THEN Yield(s, "idle", t)
    ELSE \E ltp \in EntryLtps :
            IF ltp # 0 /\ ltp > t.trigger_price
            THEN Yield(s, "sleep", [Got(t, "CE", ltp) EXCEPT !.type = "CE"])
            ELSE ReadPE(s, Got(t, "CE", ltp))

\* a tick that neither manages a position nor evaluates a leg
tick_nonblocking ==
    /\ ~Manages(HolidayChecked)
    /\ run_tick
    /\ ev'.legs = << >>

\* run_tick up to the get_ltp call of _manage_active_trade
tick_manage_begin ==
    /\ pc = "idle"
    /\ Manages(HolidayChecked)
    /\ \E ltp \in prices :
            Yield(HolidayChecked, "get_ltp",
                  [NoTick EXCEPT !.ltp = ltp, !.started = now])

\* _manage_active_trade from the answer of get_ltp: without a price the
\* tick returns; a position reset in the meantime makes
\* self.active_position['target'] raise, which ends the tick in the main
\* loop's handler
tick_after_get_ltp ==
    /\ pc = "get_ltp"
    /\ IF tk.ltp = 0 \/ active_position = NoPosition THEN Commit(St)
       ELSE Managed(St, tk.ltp)
    /\ pc' = "idle"
    /\ tk' = tk

\* run_tick up to the first sustain sleep of _check_entry_signal, the
\* trigger price read from ctx.params before the loop
tick_entry_begin ==
    /\ pc = "idle"
    /\ EntryPhase(HolidayChecked)
    /\ \E in \in SelectInputs :
            LET s == IF HolidayChecked.strikes_selected THEN HolidayChecked
                     ELSE Selected(HolidayChecked, in)
            IN  /\ s.strikes_selected
                /\ ~WeeklyGateBlocks(get_weekly_pnl(s.ledger, day))
                /\ ReadCE(s, [NoTick EXCEPT
                                !.trigger_price = params.TARGET_PREMIUM,
                                !.read = << params >>,
                                !.started = now])

\* faulty variant: a re-read at exactly the trigger confirms the breakout
tick_after_sleep_at_trigger ==
    /\ pc = "sleep"
    /\ \E verified_ltp \in VerifyLtps :
            LET t == Got(tk, tk.type, verified_ltp)
            IN  IF verified_ltp >= tk.trigger_price
                THEN IF entry_locked THEN Yield(St, "idle", t)
                     ELSE Yield([St EXCEPT !.entry_locked = TRUE], "lot_size",
                                [t EXCEPT !.ltp = verified_ltp])
                ELSE IF tk.type = "CE" THEN ReadPE(St, t)
                ELSE Yield(St, "idle", t)

\* _check_entry_signal from the end of the sleep: the second read, the lock
\* re-checked and taken, or the next leg
tick_after_sleep ==
    /\ pc = "sleep"
    /\ \E verified_ltp \in VerifyLtps :
            LET t == Got(tk, tk.type, verified_ltp)
            IN  IF verified_ltp > tk.trigger_price
                THEN IF entry_locked THEN Yield(St, "idle", t)
                     ELSE Yield([St EXCEPT !.entry_locked = TRUE], "lot_size",
                                [t EXCEPT !.ltp = verified_ltp])
                ELSE IF tk.type = "CE" THEN ReadPE(St, t)
                ELSE Yield(St, "idle", t)

\* a step of the main thread that changes only its locals
Local(where, t) ==
    /\ pc' = where
    /\ tk' = t
    /\ ev' = Quiet("tick")
    /\ UNCHANGED << mode, paused, dbPaused, killed, broker, active_position,
                    trade_taken_today, entry_locked, strikes_selected,
                    selected_strikes, risk_free_done, is_holiday,
                    holiday_checked, paper, live, ledger, holidays, holiday_api, prices,
                    params, day, now, opsLeft, faultsLeft, entries >>

\* _execute_trade: lot_size read from ctx.params
tick_read_lot_size ==
    /\ pc = "lot_size"
    /\ Local("sl_pts", [tk EXCEPT !.lot_size = params.LOT_SIZE,
                                  !.read = Append(@, params)])

\* _execute_trade: sl_pts read from ctx.params
tick_read_sl_pts ==
    /\ pc = "sl_pts"
    /\ Local("tgt_pts", [tk EXCEPT !.sl_pts = params.SL_POINTS,
                                   !.read = Append(@, params)])

\* _execute_trade: tgt_pts read from ctx.params, then the orders
tick_read_tgt_pts ==
    /\ pc = "tgt_pts"
    /\ ExecuteTrade([St EXCEPT !.lot_size = tk.lot_size,
                               !.sl_pts = tk.sl_pts,
                               !.tgt_pts = params.TARGET_POINTS,
                               !.ltp = tk.ltp],
                    selected_strikes[tk.type], tk.ltp, tk.type)
    /\ pc' = "idle"
    /\ tk' = [tk EXCEPT !.read = Append(@, params)]

\* a command that replaces ctx.params (refresh_params after set_param)
Refreshed(op, new_params) ==
    /\ new_params # params
    /\ Spend(op)
    /\ params' = new_params
    /\ UNCHANGED << mode, paused, dbPaused, killed, broker, active_position,
                    trade_taken_today, entry_locked, strikes_selected,
                    selected_strikes, risk_free_done, is_holiday,
                    holiday_checked, paper, live, ledger, holidays, holiday_api, prices,
                    day, now, faultsLeft, entries >>

\* /set_strategy <TARGET> <SL> <QTY>
cmd_set_strategy ==
    \E a \in SetStrategyArgs :
        Refreshed("set_strategy",
                  [params EXCEPT !.TARGET_POINTS = a[1], !.SL_POINTS = a[2],
                                 !.LOT_SIZE = a[3]])

\* /set_trigger <PRICE>
cmd_set_trigger ==
    \E price \in SetTriggerArgs :
        Refreshed("set_trigger", [params EXCEPT !.TARGET_PREMIUM = price])

ThreadCases ==
    { [mode |-> "paper", killed |-> FALSE, paused |-> FALSE,
       trades |-> InitLedgers[1], hs |-> {}, account |-> EmptyBroker],
      [mode |-> "live", killed |-> FALSE, paused |-> FALSE,
       trades |-> InitLedgers[1], hs |-> {}, account |-> EmptyBroker] }

InitThreads == \E c \in ThreadCases : InitFrom(c, ManageLtps)

NextThreads ==
    \/ tick_nonblocking
    \/ tick_manage_begin
    \/ tick_after_get_ltp
    \/ tick_entry_begin
    \/ tick_after_sleep
    \/ tick_read_lot_size
    \/ tick_read_sl_pts
    \/ tick_read_tgt_pts
    \/ switch_mode
    \/ toggle_pause_on
    \/ cmd_set_strategy
    \/ cmd_set_trigger
    \/ AdvanceClock

SpecThreads == InitThreads /\ [][NextThreads]_vars

(***************************************************************************)
(* The main loop alone, its tick split at the same waits: a day on which   *)
(* the operator sends no command, with the clock running while the tick    *)
(* waits                                                                   *)
(***************************************************************************)
InitWaits == \E c \in ThreadCases : InitFrom(c, ManageLtps)

NextWaits ==
    \/ tick_nonblocking
    \/ tick_manage_begin
    \/ tick_after_get_ltp
    \/ tick_entry_begin
    \/ tick_after_sleep
    \/ tick_read_lot_size
    \/ tick_read_sl_pts
    \/ tick_read_tgt_pts
    \/ AdvanceClock

SpecWaits == InitWaits /\ [][NextWaits]_vars

(***************************************************************************)
(* What a step shows of the broker calls it made                           *)
(***************************************************************************)
CallIndexes(e) == 1 .. Len(e.calls)

BuyCalls(e) ==
    {i \in CallIndexes(e) :
        e.calls[i].f = "place_order" /\ e.calls[i].side = "BUY"}

MarketExits(e) ==
    {i \in CallIndexes(e) :
        /\ e.calls[i].f = "place_order"
        /\ e.calls[i].side = "SELL"
        /\ e.calls[i].otype = "MARKET"}

Modifies(e) == {i \in CallIndexes(e) : e.calls[i].f = "modify_order"}

\* the stop prices a step sent to the broker, in order
StopsSent(e) ==
    LET m == SelectSeq(e.calls, LAMBDA c : c.f = "modify_order")
    IN  [i \in 1 .. Len(m) |-> m[i].trigger]

NonDecreasing(q) == \A i \in 1 .. (Len(q) - 1) : q[i] <= q[i + 1]

GateAlert(e) == \E i \in 1 .. Len(e.alerts) : e.alerts[i] = "weekly max loss"

\* the ledger's sum since Monday is below minus the weekly limit
BelowWeeklyLimit == get_weekly_pnl(ledger, day) < -WEEKLY_MAX_LOSS

\* a tick from this state reaches the weekly gate of the entry evaluation
EntryEvaluated ==
    /\ ~killed /\ ~paused
    /\ ~is_holiday /\ (holiday_checked \/ day \notin holidays)
    /\ active_position = NoPosition
    /\ ~trade_taken_today /\ ~entry_locked
    /\ ENTRY_START_TIME <= Time /\ Time < ENTRY_END_TIME
    /\ strikes_selected

(***************************************************************************)
(* Properties                                                              *)
(***************************************************************************)
\* C1 (as stated): over ticks, commands and restarts, at most one entry BUY
\* is accepted per calendar day in each run mode.
C1_OneEntryPerDayPerMode == \A m \in Modes : entries[m] <= 1

\* C2 (as stated): in a tick that manages a position and in which the broker
\* fails no call, the stop before the tick followed by the stops the tick
\* sends and stores is a non-decreasing sequence.
C2_StopNeverLowered ==
    [][(/\ ev'.op = "tick"
        /\ active_position # NoPosition
        /\ faultsLeft' = faultsLeft)
       => NonDecreasing(<< active_position.sl >> \o StopsSent(ev'))]_vars

\* C3 (amended): a tick that runs while killed or paused makes no broker call
\* and leaves the position, the trade-taken and entry-locked flags, the strike
\* selection, the risk-free flag, both brokers and the ledger as they are;
\* only the once-per-process holiday check may set the holiday flags.
C3_DormantTick ==
    [][(ev'.op = "tick" /\ (killed \/ paused))
       => /\ ev'.calls = << >>
          /\ UNCHANGED << active_position, trade_taken_today, entry_locked,
                          strikes_selected, selected_strikes, risk_free_done,
                          paper, live, ledger, entries >>]_vars

\* C3 witness: a tick ran while paused, with a position held past square-off.
C3_DormantTickSeen ==
    /\ ev.op = "tick"
    /\ paused
    /\ active_position # NoPosition
    /\ Time >= SQUARE_OFF_TIME

\* C3 (as stated): a tick that runs while killed or paused makes no broker
\* call and changes no position or day state, the holiday flag included.
C3_DormantTickFrozen ==
    [][(ev'.op = "tick" /\ (killed \/ paused))
       => /\ ev'.calls = << >>
          /\ UNCHANGED << active_position, trade_taken_today, entry_locked,
                          strikes_selected, selected_strikes, risk_free_done,
                          is_holiday >>]_vars

C5_QuotaKnownAtStartup ==
    (ev.op \in {"start", "restart"} /\ CountTradesToday(ledger, day, mode) > 0)
        => trade_taken_today

\* C6: sync_at_startup applied twice to the same ledger and broker gives what
\* one application gives, and right after a start one more application
\* changes neither trade_taken_today nor the position.
C6_SyncIdempotent ==
    LET st == [active_position |-> active_position,
               trade_taken_today |-> trade_taken_today]
        once == sync_at_startup(st, killed, mode, broker, Bk, ledger, day)
        twice == sync_at_startup(once, killed, mode, broker, Bk, ledger, day)
    IN  /\ twice = once
        /\ ev.op \in {"start", "restart"} => once = st

\* C6 witness: a restart rebuilt a position together with its stop order.
C6_Resynced ==
    /\ ev.op = "restart"
    /\ active_position # NoPosition
    /\ active_position.sl_order_id # None

\* the broker's first position with a nonzero quantity
FirstOpenIndex(bk) ==
    CHOOSE i \in 1 .. Len(bk.positions) :
        /\ bk.positions[i].quantity # 0
        /\ \A j \in 1 .. (i - 1) : bk.positions[j].quantity = 0

\* the working SELL stop orders on an instrument, by place in the order book
StopIndexes(bk, token) ==
    {j \in 1 .. Len(bk.orders) :
        /\ bk.orders[j].transaction_type = "SELL"
        /\ bk.orders[j].order_type \in {"SL", "SL-M"}
        /\ bk.orders[j].instrument_token = token
        /\ bk.orders[j].status \in {"open", "trigger pending"}}

\* right after a start that found an open broker position, the engine holds
\* that position with the first matching stop order
RebuiltFromBroker ==
    (/\ ev.op \in {"start", "restart"}
     /\ ~killed
     /\ \E i \in 1 .. Len(Bk.positions) : Bk.positions[i].quantity # 0)
    => LET p == Bk.positions[FirstOpenIndex(Bk)]
           stops == StopIndexes(Bk, p.instrument_token)
       IN  /\ active_position.key = p.instrument_token
           /\ active_position.entry_price = p.average_price
           /\ active_position.quantity = p.quantity
           /\ active_position.target = p.average_price + TARGET_POINTS
           /\ IF stops = {}
              THEN active_position.sl_order_id = None /\ active_position.sl = 0
              ELSE LET j == CHOOSE k \in stops : \A l \in stops : k <= l
                   IN  /\ active_position.sl_order_id = Bk.orders[j].order_id
                       /\ active_position.sl = Bk.orders[j].trigger_price

\* an active tick manages a rebuilt position whatever the day's flags say: it
\* evaluates no entry and exits on failsafe, target and square-off time
RebuiltIsManaged ==
    (/\ ev'.op = "tick"
     /\ ~killed /\ ~paused /\ ~is_holiday'
     /\ active_position.type = "UNKNOWN")
    => /\ BuyCalls(ev') = {}
       /\ (/\ ev'.ltp # 0
           /\ \/ ev'.ltp < active_position.sl - FAILSAFE_MARGIN
              \/ ev'.ltp >= active_position.target
              \/ Time >= SQUARE_OFF_TIME)
          => \E i \in MarketExits(ev') :
                /\ ev'.calls[i].key = active_position.key
                /\ ev'.calls[i].qty = active_position.quantity

\* C7: a start that finds a broker position with nonzero quantity holds an
\* ActivePosition with the broker's instrument, entry price and quantity,
\* target = entry price + target points, and the id and trigger price of the
\* first working SELL SL/SL-M order on that instrument (no stop id and stop 0
\* when there is none); ticks manage that position even though the ledger
\* shows no trade today.
C7_RebuiltPosition == []RebuiltFromBroker /\ [][RebuiltIsManaged]_vars

\* C7 witness: a tick moved the stop of a rebuilt position while the ledger
\* showed no trade today.
C7_RebuiltTrailed ==
    /\ ev.op = "tick"
    /\ active_position.type = "UNKNOWN"
    /\ active_position.sl_order_id # None
    /\ Modifies(ev) # {}
    /\ ~trade_taken_today
    /\ CountTradesToday(ledger, day, mode) = 0

\* C8 (as stated, for ticks that run while the engine is active): a tick with
\* a position held at or past the square-off time sends a market exit and
\* modifies no stop.
C8_TimeExitEveryTick ==
    [][(/\ ev'.op = "tick"
        /\ ~killed /\ ~paused /\ ~is_holiday'
        /\ active_position # NoPosition
        /\ Time >= SQUARE_OFF_TIME)
       => (MarketExits(ev') # {} /\ Modifies(ev') = {})]_vars

\* C9 (as stated): once the ledger holds a closed trade dated today in a run
\* mode, no step accepts another entry BUY in that mode that day.
C9_ClosedIsFinal ==
    [][CountTradesToday(ledger, day, mode') > 0
       => entries'[mode'] = entries[mode']]_vars

\* C10: a tick sends an entry BUY only from a state with no position, sends
\* at most one, and a tick that starts with a position leaves it either
\* closed or the same position with at most its stop moved.
C10_SinglePosition ==
    [][ev'.op = "tick"
       => /\ BuyCalls(ev') # {} => active_position = NoPosition
          /\ Cardinality(BuyCalls(ev')) <= 1
          /\ active_position # NoPosition
                => /\ entries' = entries
                   /\ \/ active_position' = NoPosition
                      \/ [active_position' EXCEPT !.sl = 0]
                            = [active_position EXCEPT !.sl = 0]]_vars

\* C10 witness: a tick placed the entry and its stop and now holds the position.
C10_Entered ==
    /\ ev.op = "tick"
    /\ BuyCalls(ev) # {}
    /\ active_position # NoPosition
    /\ active_position.sl_order_id # None

\* the legs of the last step's entry pass whose breakout the pass read and
\* found sustained
SustainedLegs(e) ==
    {i \in 1 .. Len(e.legs) : e.legs[i].read /\ e.legs[i].sustained}

PlaceCalls(e) == {i \in CallIndexes(e) : e.calls[i].f = "place_order"}

\* C11: an entry pass sends exactly one entry BUY when a leg it reads
\* sustains and none otherwise; the call leg is read first, and when it
\* sustains the put leg is not read whatever its price does, every order of
\* the pass is on the call contract, and the lock is held afterwards unless
\* the broker raised; the put contract is entered only when the call leg did
\* not sustain.
C11_OneLegEntered ==
    (ev.op = "tick" /\ ev.legs # << >>)
    => /\ ev.legs[1].type = "CE" /\ ev.legs[1].read
       /\ Len(ev.legs) = 2 /\ ev.legs[2].type = "PE"
       /\ Cardinality(BuyCalls(ev)) = (IF SustainedLegs(ev) = {} THEN 0 ELSE 1)
       /\ ev.legs[1].sustained
            => /\ ~ev.legs[2].read
               /\ \A i \in PlaceCalls(ev) : ev.calls[i].key = selected_strikes.CE
       /\ ~ev.legs[1].sustained
            => /\ ev.legs[2].read
               /\ \A i \in PlaceCalls(ev) : ev.calls[i].key = selected_strikes.PE
       /\ BuyCalls(ev) # {}
            => \/ entry_locked
               \/ \E i \in 1 .. Len(ev.alerts) : ev.alerts[i] = "execution failed"

\* C11 witness: both legs were sustaining above the trigger in one pass; the
\* call contract was bought and the put leg was never read.
C11_BothLegsSustained ==
    /\ ev.op = "tick"
    /\ ev.legs = << [type |-> "CE", read |-> TRUE, sustained |-> TRUE],
                    [type |-> "PE", read |-> FALSE, sustained |-> TRUE] >>
    /\ Cardinality(BuyCalls(ev)) = 1
    /\ active_position.type = "CE"
    /\ active_position.key = selected_strikes.CE
    /\ entry_locked

\* the close alerts of a step
CloseAlerts(e) ==
    {e.alerts[i] : i \in 1 .. Len(e.alerts)}
        \cap {"failsafe", "target", "time exit"}

\* a tick that manages the held position on a price the feed delivered
ManagingTick ==
    /\ ev'.op = "tick"
    /\ ~killed /\ ~paused /\ ~is_holiday'
    /\ active_position # NoPosition
    /\ ev'.ltp # 0

\* C12: in a tick that manages a position on a delivered price, the failsafe
\* exit is sent if and only if the price is strictly below the stop minus
\* 2: below that level a market exit is sent and a completed close is
\* reported as failsafe; at or above it no close is reported as failsafe and,
\* short of the target and of the square-off time, nothing is sold and the
\* position stays; with the stop at 180 the level is passed at 177 and not
\* at 178 or 179.
C12_FailsafeBoundary ==
    [][ManagingTick
       => /\ ev'.ltp < active_position.sl - FAILSAFE_MARGIN
                => /\ MarketExits(ev') # {}
                   /\ CloseAlerts(ev') \subseteq {"failsafe"}
                   /\ active_position' = NoPosition
                        => CloseAlerts(ev') = {"failsafe"}
          /\ ev'.ltp >= active_position.sl - FAILSAFE_MARGIN
                => /\ "failsafe" \notin CloseAlerts(ev')
                   /\ (ev'.ltp < active_position.target
                       /\ Time < SQUARE_OFF_TIME)
                        => /\ MarketExits(ev') = {}
                           /\ active_position' # NoPosition
          /\ active_position.sl = 180
                => /\ ev'.ltp = 177 => MarketExits(ev') # {}
                   /\ (ev'.ltp \in {178, 179} /\ Time < SQUARE_OFF_TIME)
                        => ev'.calls = << >>]_vars

\* C12 witness: a position entered at 200 with its stop still at 180 was
\* closed by the failsafe exit at 177.
C12_FailsafeAt177 ==
    /\ ev.op = "tick"
    /\ ev.ltp = 177
    /\ CloseAlerts(ev) = {"failsafe"}
    /\ active_position = NoPosition
    /\ entries[mode] = 1
    /\ ~risk_free_done
    /\ Time < TRAIL_ACTIVATION_TIME
    /\ ledger[Len(ledger)].pnl = (177 - 200) * LOT_SIZE

\* C13 (as stated): in a managing tick in which no exit is sent and the
\* broker fails no call, a position with a stop order whose price is at least
\* the trailing trigger above entry gets the stop price minus the trailing
\* gap whenever that is strictly higher than its stop.
C13_PriceTrailing ==
    [][(/\ ManagingTick
        /\ MarketExits(ev') = {}
        /\ faultsLeft' = faultsLeft
        /\ active_position.sl_order_id # None
        /\ ev'.ltp - active_position.entry_price >= TRAILING_TRIGGER
        /\ ev'.ltp - TRAILING_GAP > active_position.sl)
       => active_position'.sl = ev'.ltp - TRAILING_GAP]_vars

\* C14: a tick that sends an entry BUY on a confirmed price p sends it first,
\* as a LIMIT BUY at p + 5 for the lot size on a selected contract; when the
\* broker accepts it the position holds entry p, stop p - stop-loss points,
\* target p + target points and the lot size, and the second call is a SELL
\* SL-M on the same contract for the same quantity with trigger exactly
\* p - stop-loss points, which the broker then works under the position's
\* stop order id; a refused or failed BUY leaves no position and no stop.
C14_EntryOrders ==
    (ev.op = "tick" /\ BuyCalls(ev) # {})
    => LET b == ev.calls[1]
           p == ev.ltp
       IN  /\ b.f = "place_order" /\ b.side = "BUY" /\ b.otype = "LIMIT"
           /\ b.price = p + BUFFER_POINTS
           /\ b.qty = LOT_SIZE
           /\ b.key \in {selected_strikes.CE, selected_strikes.PE}
           /\ active_position = NoPosition => Len(ev.calls) = 1
           /\ active_position # NoPosition
                => /\ active_position.key = b.key
                   /\ active_position.entry_price = p
                   /\ active_position.sl = p - SL_POINTS
                   /\ active_position.target = p + TARGET_POINTS
                   /\ active_position.quantity = LOT_SIZE
                   /\ p = 200 => (active_position.sl = 180
                                  /\ active_position.target = 240)
                   /\ Len(ev.calls) = 2
                   /\ ev.calls[2] = Call("place_order", "SELL", "SL-M", b.key,
                                         LOT_SIZE, 0, p - SL_POINTS, None)
                   /\ active_position.sl_order_id # None
                        => \E i \in 1 .. Len(Bk.orders) :
                            /\ Bk.orders[i].order_id = active_position.sl_order_id
                            /\ Bk.orders[i].instrument_token = b.key
                            /\ Bk.orders[i].transaction_type = "SELL"
                            /\ Bk.orders[i].order_type = "SL-M"
                            /\ Bk.orders[i].trigger_price = p - SL_POINTS

\* C14 witness: a signal confirmed at 200 was entered: stop 180, target 240,
\* both orders sent, the stop working at the broker.
C14_EnteredAt200 ==
    /\ ev.op = "tick"
    /\ ev.ltp = 200
    /\ Len(ev.calls) = 2
    /\ ev.calls[1].price = 205
    /\ active_position.sl = 180
    /\ active_position.target = 240
    /\ \E i \in 1 .. Len(Bk.orders) :
            /\ Bk.orders[i].order_id = active_position.sl_order_id
            /\ Bk.orders[i].trigger_price = 180

\* the contract of a list at the least distance from the target premium,
\* the earliest in list order among equals
FirstClosest(list, key) ==
    \E i \in 1 .. Len(list) :
        /\ list[i].instrument_key = key
        /\ \A j \in 1 .. Len(list) :
                Abs(list[j].ltp - TARGET_PREMIUM) >= Abs(list[i].ltp - TARGET_PREMIUM)
        /\ \A j \in 1 .. (i - 1) :
                Abs(list[j].ltp - TARGET_PREMIUM) > Abs(list[i].ltp - TARGET_PREMIUM)

\* C15: the selected strikes are, for some chain the feed returned, the
\* first closest call of its call list and the first closest put of its put
\* list, each chosen within its own list (on the chain with calls at 182 and
\* 178 and puts at 195 and 175: the first call and the second put); nothing
\* is selected from a chain that lacks a leg.
C15_ClosestPerLeg ==
    /\ strikes_selected
         => \E chain \in Chains :
                /\ chain.CE # << >> /\ chain.PE # << >>
                /\ FirstClosest(chain.CE, selected_strikes.CE)
                /\ FirstClosest(chain.PE, selected_strikes.PE)
                /\ chain = ChainTie
                     => selected_strikes = [CE |-> "CE1", PE |-> "PE2"]
    /\ ~strikes_selected => selected_strikes = NoStrikes

\* C15 witness: a tick selected the strikes from the chain with the tie.
C15_SelectedOnTie ==
    /\ ev.op = "tick"
    /\ strikes_selected
    /\ selected_strikes = [CE |-> "CE1", PE |-> "PE2"]
    /\ Time < ENTRY_START_TIME


\* C16 (as stated): right after a start that rebuilt a position and found no
\* matching stop order, an alert about the position has reached the operator.
C16_UnprotectedAlerted ==
    (/\ ev.op \in {"start", "restart"}
     /\ active_position.type = "UNKNOWN"
     /\ active_position.sl_order_id = None)
    => \E i \in 1 .. Len(ev.alerts) : ev.alerts[i] \in {"resumed", "unprotected"}

\* C17 (as stated): all parameter reads of one tick come from the same
\* parameter dictionary.
C17_OneSnapshotPerTick ==
    \A i \in 1 .. Len(tk.read) : tk.read[i] = tk.read[1]

\* C18 (as stated): while a tick is in progress, a step of the command
\* thread leaves the position and the day state as they are.
C18_TickExcludesMutators ==
    [][(pc # "idle" /\ ev'.op # "tick")
       => UNCHANGED << active_position, entry_locked, trade_taken_today >>]_vars

\* an active tick that starts with a position held
HeldTick ==
    /\ ev'.op = "tick"
    /\ ~killed /\ ~paused /\ ~is_holiday'
    /\ active_position # NoPosition

\* the close reason of the first exit condition that holds, in the order
\* failsafe, target, time exit
DueReason(ltp, pos, t) ==
    IF ltp < pos.sl - FAILSAFE_MARGIN THEN "failsafe"
    ELSE IF ltp >= pos.target THEN "target"
    ELSE IF t >= SQUARE_OFF_TIME THEN "time exit"
    ELSE "none"

\* C19: a tick that manages a position sends at most one market exit and
\* reports at most one close; on a delivered price, when an exit condition
\* holds the exit is sent, no stop is modified and a completed close carries
\* the reason of the first of failsafe, target, time exit that holds; when
\* none holds nothing is sold, and the stop moves come in the order
\* risk-free (to entry), then trailing.
C19_ManagementOrder ==
    [][HeldTick
       => LET due == DueReason(ev'.ltp, active_position, Time)
              sent == StopsSent(ev')
          IN  /\ Cardinality(MarketExits(ev')) <= 1
              /\ Cardinality(CloseAlerts(ev')) <= 1
              /\ ev'.ltp = 0 => ev'.calls = << >>
              /\ (ev'.ltp # 0 /\ due # "none")
                    => /\ Cardinality(MarketExits(ev')) = 1
                       /\ Modifies(ev') = {}
                       /\ CloseAlerts(ev') \subseteq {due}
                       /\ active_position' = NoPosition
                            => CloseAlerts(ev') = {due}
              /\ (ev'.ltp # 0 /\ due = "none")
                    => /\ MarketExits(ev') = {}
                       /\ CloseAlerts(ev') = {}
                       /\ active_position' # NoPosition
                       /\ Len(sent) <= 2
                       /\ Len(sent) = 2
                            => /\ sent[1] = active_position.entry_price
                               /\ Time >= TRAIL_ACTIVATION_TIME]_vars

\* C19 witness: at the square-off time with the price below the failsafe
\* level, the one close of the tick was reported as failsafe.
C19_FailsafeBeforeTimeExit ==
    /\ ev.op = "tick"
    /\ Time >= SQUARE_OFF_TIME
    /\ ev.ltp = 177
    /\ CloseAlerts(ev) = {"failsafe"}
    /\ Cardinality(MarketExits(ev)) = 1
    /\ active_position = NoPosition

\* C20 (as stated): a tick that runs while the system is paused, with a
\* broker present, no holiday and a position held at or past the square-off
\* time, still runs exit management: it sends the market exit.
C20_ManagedWhilePaused ==
    [][(/\ ev'.op = "tick"
        /\ paused /\ ~killed /\ ~is_holiday'
        /\ active_position # NoPosition
        /\ Time >= SQUARE_OFF_TIME)
       => MarketExits(ev') # {}]_vars

\* the last two price reads of an entry pass are of one leg and both are
\* strictly above the trigger premium
Confirmed(t) ==
    LET n == Len(t.ltps)
    IN  /\ n >= 2
        /\ t.ltps[n].type = t.ltps[n - 1].type
        /\ t.ltps[n - 1].ltp > TARGET_PREMIUM
        /\ t.ltps[n].ltp > TARGET_PREMIUM

\* C21: a step of a tick that holds no position sends an order or changes
\* entry_locked only when the last two price reads of the pass, the one
\* before and the one after the sustain wait, are of one leg and both
\* strictly above the trigger premium, and an entry BUY is on that leg's
\* contract; a read at or below the trigger, first or second, is followed by
\* no order for that leg and leaves entry_locked as it is.
C21_SustainedBreakoutOnly ==
    [][(/\ ev'.op = "tick"
        /\ active_position = NoPosition
        /\ entry_locked' # entry_locked \/ ev'.calls # << >>)
       => /\ Confirmed(tk')
          /\ \A i \in BuyCalls(ev') :
                ev'.calls[i].key = selected_strikes[tk'.ltps[Len(tk'.ltps)].type]]_vars

\* C21 witness: the call leg broke out at 200 and was back at the trigger
\* after the wait, the put leg read 200 before and after its wait, and the
\* put contract was bought.
C21_PutEnteredAfterCallFaded ==
    /\ ev.op = "tick"
    /\ BuyCalls(ev) # {}
    /\ tk.ltps = << [type |-> "CE", ltp |-> 200],
                    [type |-> "CE", ltp |-> TARGET_PREMIUM],
                    [type |-> "PE", ltp |-> 200],
                    [type |-> "PE", ltp |-> 200] >>
    /\ active_position.type = "PE"
    /\ active_position.key = selected_strikes.PE

\* C22 (as stated): a tick sends an entry BUY only while the wall clock is
\* at or after the entry start and before the entry end, the sustain wait
\* included.
C22_EntryInsideWindow ==
    (ev.op = "tick" /\ BuyCalls(ev) # {})
    => (ENTRY_START_TIME <= Time /\ Time < ENTRY_END_TIME)

\* C23 (as stated): when a new calendar day has begun in a running process,
\* the day state is reset: no trade taken, entry not locked, no strikes
\* selected.
C23_NewDayResets ==
    ev.op = "midnight"
        => (~trade_taken_today /\ ~entry_locked /\ ~strikes_selected)

\* C24 (as stated): a tick whose holiday query fails leaves the check to be
\* made again by the next tick.
C24_FailedCheckRetried ==
    [][(ev'.op = "tick" /\ ~holiday_checked /\ broker # "none" /\ ~holiday_api)
       => ~holiday_checked']_vars

\* C25 (as stated): a position is marked risk-free-done only after the
\* broker accepted the move of its stop to entry; a position that a tick has
\* just entered, for which no stop modification was sent yet, is not marked.
C25_DoneOnlyAfterMove ==
    (ev.op = "tick" /\ BuyCalls(ev) # {} /\ active_position # NoPosition)
    => ~risk_free_done

AlertsOf(e) == {e.alerts[i] : i \in 1 .. Len(e.alerts)}

\* C26 (as stated): a tick in which candle trailing changes the stop runs
\* at or after the trailing-activation time, and the candle low it sets is
\* strictly above the stop the position has at that moment (its entry price
\* when the risk-free move was made earlier in the tick) and strictly below
\* the current price.
C26_CandleTrailRaises ==
    [][(/\ ev'.op = "tick"
        /\ active_position # NoPosition
        /\ "trailing" \in AlertsOf(ev'))
       => LET sent == StopsSent(ev')
              candle_low == sent[Len(sent)]
              current_stop == IF "risk free" \in AlertsOf(ev')
                              THEN active_position.entry_price
                              ELSE active_position.sl
          IN  /\ Time >= TRAIL_ACTIVATION_TIME
              /\ candle_low > current_stop
              /\ candle_low < ev'.ltp]_vars

\* C27: a tick that clears the position has made exactly these broker
\* calls, in this order: cancel_order on the position's stop order when it
\* has one, a MARKET SELL of the position's contract for its full quantity,
\* and the read of the exit price; it has appended exactly one ledger record,
\* with PnL = (exit price read - entry price) x quantity, raised one close
\* alert, and ends with entry_locked set.
C27_CloseSequence ==
    [][(/\ ev'.op = "tick"
        /\ active_position # NoPosition
        /\ active_position' = NoPosition)
       => LET ap == active_position
              c == ev'.calls
              n == Len(c)
          IN  /\ n = (IF ap.sl_order_id # None THEN 3 ELSE 2)
              /\ ap.sl_order_id # None
                    => c[1] = Call("cancel_order", "", "", "", 0, 0, 0,
                                   ap.sl_order_id)
              /\ c[n - 1] = Call("place_order", "SELL", "MARKET", ap.key,
                                 ap.quantity, 0, 0, None)
              /\ c[n].f = "get_ltp" /\ c[n].key = ap.key
              /\ ledger' = Append(ledger,
                                  [date |-> day, mode |-> Upper(mode),
                                   pnl |-> (c[n].price - ap.entry_price)
                                            * ap.quantity])
              /\ Cardinality(CloseAlerts(ev')) = 1
              /\ entry_locked']_vars

\* C27 witness: a position with entry 200 and a resting stop was closed on
\* a price of 177; the stop was cancelled, the sell sent, the exit price then
\* read as 178 and booked.
C27_ClosedAtLaterPrice ==
    /\ ev.op = "tick"
    /\ ev.ltp = 177
    /\ Len(ev.calls) = 3
    /\ ev.calls[1].f = "cancel_order"
    /\ ev.calls[2].side = "SELL"
    /\ ev.calls[3].f = "get_ltp" /\ ev.calls[3].price = 178
    /\ active_position = NoPosition
    /\ entry_locked
    /\ ledger # << >>
    /\ ledger[Len(ledger)].pnl = (178 - 200) * LOT_SIZE

\* C28: a tick that holds a position and in which a broker call of the
\* close attempt raises leaves the position, entry_locked and the ledger as
\* they are and reports no close; and every tick of an active engine that
\* holds a position, is delivered a price and finds an exit condition true
\* sends the market exit, so the close is attempted again after a failure.
C28_FailedCloseRetried ==
    [][/\ (ev'.op = "tick" /\ active_position # NoPosition /\ ev'.raised)
            => /\ active_position' = active_position
               /\ entry_locked' = entry_locked
               /\ ledger' = ledger
               /\ CloseAlerts(ev') = {}
               /\ MarketExits(ev') # {}
       /\ (HeldTick /\ ev'.ltp # 0
           /\ DueReason(ev'.ltp, active_position, Time) # "none")
            => Cardinality(MarketExits(ev')) = 1]_vars

\* C28 witness: the stop order was cancelled, the market sell raised, and
\* the position is still held, unlocked as before, with an exit condition
\* that still holds.
C28_SellRaised ==
    /\ ev.op = "tick"
    /\ ev.raised
    /\ Len(ev.calls) = 2
    /\ ev.calls[1].f = "cancel_order"
    /\ ev.calls[2].side = "SELL"
    /\ active_position # NoPosition
    /\ ~HasOrder(Bk, active_position.sl_order_id)
    /\ ~entry_locked
    /\ DueReason(ev.ltp, active_position, Time) # "none"

\* C29: a tick in which the entry order or the stop order placement raised
\* ends with entry_locked false and an execution-failed alert sent to the
\* operator; when the entry order raised (the only call of the tick) there
\* is no position and trade_taken_today is false, so that a tick inside the
\* entry window evaluates entry again; when the stop order raised the
\* position bought is held without a stop order id.
C29_ExecutionFailure ==
    (ev.op = "tick" /\ ev.raised /\ BuyCalls(ev) # {})
    => /\ ~entry_locked
       /\ "execution failed" \in AlertsOf(ev)
       /\ Len(ev.calls) <= 2
       /\ Len(ev.calls) = 1
            => /\ active_position = NoPosition
               /\ ~trade_taken_today
               /\ strikes_selected /\ ~killed /\ ~paused /\ ~is_holiday
       /\ Len(ev.calls) = 2
            => /\ active_position # NoPosition
               /\ active_position.sl_order_id = None
               /\ trade_taken_today

\* C29 witness: the entry order raised inside the entry window; nothing is
\* held or locked and the operator was told.
C29_EntryOrderRaised ==
    /\ ev.op = "tick"
    /\ ev.raised
    /\ Len(ev.calls) = 1
    /\ ev.calls[1].side = "BUY"
    /\ ev.alerts = << "execution failed" >>
    /\ active_position = NoPosition
    /\ ~entry_locked
    /\ ~trade_taken_today
    /\ ENTRY_START_TIME <= Time /\ Time < ENTRY_END_TIME

\* C30 (as stated): a position created by trade execution always carries
\* the id of a stop order.
C30_EnteredPositionHasStop ==
    (active_position # NoPosition /\ active_position.type \in {"CE", "PE"})
    => active_position.sl_order_id # None

\* the account holds a nonzero net quantity of the contract
BrokerHolds(bk, key) ==
    \E i \in 1 .. Len(bk.positions) :
        /\ bk.positions[i].instrument_token = key
        /\ bk.positions[i].quantity # 0

\* C31 (as stated): no step of a running process empties active_position
\* while the account it was traded on still holds the position's contract.
C31_DestroyedOnlyByClose ==
    [][(/\ ev'.op # "restart"
        /\ active_position # NoPosition
        /\ active_position' = NoPosition)
       => ~BrokerHolds(IF mode = "paper" THEN paper' ELSE live',
                       active_position.key)]_vars

\* a tick from this state reaches the observation or the entry phase
\* without a selection
SelectionDue ==
    /\ ~killed /\ ~paused
    /\ ~is_holiday /\ (holiday_checked \/ day \notin holidays)
    /\ active_position = NoPosition
    /\ ~trade_taken_today /\ ~entry_locked
    /\ OBSERVATION_START_TIME <= Time /\ Time < ENTRY_END_TIME
    /\ ~strikes_selected

\* C32: a tick whose strike selection fails (no spot price, an empty leg of
\* the chain, or a call that raises) leaves strikes_selected false and the
\* selected strikes as they were, ends without an exception, an order, a leg
\* evaluation or an alert; and every tick that reaches the observation or
\* the entry phase without a selection makes an attempt, so a failed one is
\* repeated by the next such tick.
C32_SelectionRetried ==
    [][/\ (ev'.op = "tick" /\ ev'.select = "failed")
            => /\ ~strikes_selected'
               /\ UNCHANGED << strikes_selected, selected_strikes >>
               /\ ~ev'.raised
               /\ ev'.calls = << >> /\ ev'.legs = << >> /\ ev'.alerts = << >>
       /\ (ev'.op = "tick" /\ SelectionDue) => ev'.select # "none"
       /\ (ev'.op = "tick" /\ ~SelectionDue) => ev'.select = "none"]_vars

\* C32 witness: inside the entry window an attempt failed; the tick ended
\* quietly, with nothing selected and the next tick due to try again.
C32_AttemptFailed ==
    /\ ev.op = "tick"
    /\ ev.select = "failed"
    /\ ev.calls = << >> /\ ev.legs = << >> /\ ev.alerts = << >>
    /\ ENTRY_START_TIME <= Time /\ Time < ENTRY_END_TIME
    /\ ~strikes_selected
    /\ selected_strikes = NoStrikes
    /\ SelectionDue

\* the tick went through the weekly gate: it raised the gate's alert or
\* went on to read a leg
GateEvaluated(e) == GateAlert(e) \/ e.legs # << >>

C34_OutsideWindowNoOp ==
    [][(/\ ev'.op = "tick"
        /\ active_position = NoPosition
        /\ ~(OBSERVATION_START_TIME <= Time /\ Time < ENTRY_END_TIME))
       => /\ ev'.calls = << >>
          /\ ev'.select = "none" /\ ev'.legs = << >> /\ ev'.alerts = << >>
          /\ UNCHANGED << strikes_selected, selected_strikes, entry_locked,
                          trade_taken_today, active_position, risk_free_done,
                          paper, live, ledger, entries >>]_vars

\* C34 witness: at the entry end, with strikes selected, nothing held, no
\* trade taken and entry unlocked, an active engine's tick did nothing.
C34_TickAtEntryEnd ==
    /\ ev.op = "tick"
    /\ Time = ENTRY_END_TIME
    /\ ~killed /\ ~paused /\ ~is_holiday
    /\ active_position = NoPosition
    /\ ~trade_taken_today /\ ~entry_locked
    /\ strikes_selected
    /\ ev.calls = << >>

\* C35 (as stated): no account ever shows a negative net quantity: the
\* engine's exit SELL never sells more than the account holds.
C35_NeverOversold ==
    /\ \A i \in 1 .. Len(live.positions) : live.positions[i].quantity >= 0
    /\ \A i \in 1 .. Len(paper.positions) : paper.positions[i].quantity >= 0

\* C36 (as stated): a tick that sent the market exit and no longer tracks a
\* position has sold it: the account it trades on does not hold the
\* contract any more.
C36_ClearedOnlyWhenSold ==
    (ev.op = "tick" /\ active_position = NoPosition)
    => \A i \in MarketExits(ev) : ~BrokerHolds(Bk, ev.calls[i].key)

\* C37 (as stated): while the engine is paused or killed no step of a tick
\* places an order, a tick that was in progress when the command ran
\* included.
C37_NoOrderWhileStopped ==
    (ev.op = "tick" /\ (paused \/ killed)) => PlaceCalls(ev) = {}

\* C38 (as stated): right after emergency_kill the engine holds no
\* ActivePosition.
C38_KillDropsPosition == ev.op = "kill" => active_position = NoPosition

\* C39 (as stated): a tick that sent an entry BUY and holds no position
\* afterwards has released the entry lock.
C39_FailedEntryUnlocks ==
    (ev.op = "tick" /\ BuyCalls(ev) # {} /\ active_position = NoPosition)
    => ~entry_locked

\* a position rebuilt at startup for which no stop order was found
Stopless(pos) == pos.type = "UNKNOWN" /\ pos.sl_order_id = None

\* C40: a position rebuilt at startup without a matching stop order has
\* stop price 0 and no stop order id; a tick that manages it sends no stop
\* modification, never closes it as failsafe, and either leaves it exactly
\* as it is or, with the price at or above the target or the clock at or
\* past square-off, sends the market exit with the close reason target or
\* time exit.
C40_StoplessRebuilt ==
    /\ [](Stopless(active_position) => active_position.sl = 0)
    /\ [][(ev'.op = "tick" /\ Stopless(active_position))
          => /\ Modifies(ev') = {}
             /\ "failsafe" \notin CloseAlerts(ev')
             /\ CloseAlerts(ev') \subseteq {"target", "time exit"}
             /\ active_position' \in {active_position, NoPosition}
             /\ (MarketExits(ev') # {} \/ active_position' = NoPosition)
                    => \/ ev'.ltp >= active_position.target
                       \/ Time >= SQUARE_OFF_TIME]_vars

\* C40 witness: a tick read 177 for a rebuilt position bought at 200 that
\* has no stop order; nothing was sent and the position is held as before,
\* with stop price 0.
C40_HeldBelowEntry ==
    /\ ev.op = "tick"
    /\ ev.ltp = 177
    /\ ev.calls = << >>
    /\ Stopless(active_position)
    /\ active_position.sl = 0
    /\ active_position.entry_price = 200
    /\ ~killed /\ ~paused /\ ~is_holiday

====
